---- MODULE Spec2Model ----
(***************************************************************************)
(* Invoice / payment ledger of the accounting assistant: the invoices and  *)
(* payments tables (shared/schema.ts), the storage layer                   *)
(* (server/storage.ts) and the invoice and payment routes                  *)
(* (server/routes.ts).                                                     *)
(*                                                                         *)
(* Amounts are whole currency units ("100.00" is 100): for such values     *)
(* Number(amount) and the floating point sums of the routes are exact.     *)
(***************************************************************************)
EXTENDS Integers, FiniteSets, Sequences, TLC

\* ---- bounds of the model ----
MaxInvoices == 1          \* rows the serial invoices.id hands out
MaxPayments == 2          \* rows the serial payments.id hands out

\* ---- input domains ----
Users == {1, 2}           \* user 1 is the administrator, user 2 an accountant
NoUser == 0               \* req.isAuthenticated() is false
Callers == Users \cup {NoUser}
Statuses == {"paid", "pending", "overdue"}
InvoiceAmounts == {60, 100}
PaymentAmounts == {40, 60}
Omitted == 0              \* a numeric field the request body leaves out
Invalid == -1             \* an amount the insert schema rejects (safeParse fails)
OmittedStatus == "omitted"
OmittedFlag == "omitted"  \* a boolean field the request body leaves out
PaymentDates == {1}       \* payment.date, as a day number
Currencies == {"USD", "EUR"}   \* body.currency: a key no table has a column for
InvoiceCurrency == "USD"  \* invoices carry no currency: amounts are US dollars
Reqs == {1, 2}            \* request handlers that may be in flight together
Faults == {"read", "write"}

VARIABLES
    invoices,       \* table invoices: id -> [amount, status, userId]
    payments,       \* table payments: id -> [invoiceId, amount, date,
                    \*                         receiptGenerated, userId]
    invoiceSeq,     \* last value of the serial invoices.id
    paymentSeq,     \* last value of the serial payments.id
    last,           \* the request answered last: route, response code, ...
    req,            \* handlers suspended at an await (ConcSpec only)
    call,           \* the client-side utility call evaluated last
    reports,        \* table reports: id -> [title, type, generatedAt, userId]
    clients         \* table clients: [seq, rows], rows: id -> [name, email, userId]

vars == <<invoices, payments, invoiceSeq, paymentSeq, last, req, call, reports,
          clients>>
store == <<invoices, payments, invoiceSeq, paymentSeq>>

\* ---- users ----
Role(u) == IF u = 1 THEN "admin" ELSE "accountant"

\* req.user.role !== "admin" && row.userId !== req.user.id
AccessDenied(caller, row) == Role(caller) # "admin" /\ row.userId # caller

\* ---- storage layer ----
RECURSIVE SumAmounts(_, _)
\* rows.reduce((sum, p) => sum + Number(p.amount), 0), rows given by their ids
SumAmounts(S, table) ==
    IF S = {} THEN 0
    ELSE LET p == CHOOSE x \in S : TRUE
         IN table[p].amount + SumAmounts(S \ {p}, table)

getPaymentsByInvoice(pays, invoiceId) ==
    {p \in DOMAIN pays : pays[p].invoiceId = invoiceId}

\* sum of the amounts of the payments stored for an invoice
TotalPaid(pays, invoiceId) == SumAmounts(getPaymentsByInvoice(pays, invoiceId), pays)

Remove(table, id) == [x \in DOMAIN table \ {id} |-> table[x]]

\* db.update(invoices).set({status}).where(eq(invoices.id, id)): no row, no change
setStatus(invs, id, status) ==
    IF id \in DOMAIN invs THEN [invs EXCEPT ![id].status = status] ELSE invs

\* ---- responses ----
\* inv: the invoice the request names; preStatus: its status when the request came
Respond(op, code, caller, inv, preStatus) ==
    last' = [op |-> op, code |-> code, caller |-> caller, inv |-> inv,
             preStatus |-> preStatus]

StatusOf(invs, id) == IF id \in DOMAIN invs THEN invs[id].status ELSE "none"

NoReq == [pc |-> "idle"]
NoCall == [fn |-> "none", state |-> "idle"]

\* the table clients before the first insert
NoClients == [seq |-> 0, rows |-> <<>>]

Init ==
    /\ invoices = <<>>
    /\ payments = <<>>
    /\ invoiceSeq = 0
    /\ paymentSeq = 0
    /\ last = [op |-> "none", code |-> 0, caller |-> NoUser, inv |-> 0,
               preStatus |-> "none"]
    /\ req = [r \in Reqs |-> NoReq]
    /\ reports = <<>>
    /\ clients = NoClients
    /\ call = NoCall

\* ---- POST /api/invoices ----
\* body.status omitted: the column default "pending"
CreateInvoice(caller, amount, status) ==
    /\ UNCHANGED <<payments, paymentSeq, req, call, reports, clients>>
    /\ IF caller = NoUser
       THEN Respond("createInvoice", 401, caller, 0, "none")
            /\ UNCHANGED <<invoices, invoiceSeq>>
       ELSE IF amount = Invalid
       THEN Respond("createInvoice", 400, caller, 0, "none")
            /\ UNCHANGED <<invoices, invoiceSeq>>
       ELSE /\ invoiceSeq < MaxInvoices
            /\ invoiceSeq' = invoiceSeq + 1
            /\ invoices' = invoices @@ (invoiceSeq + 1 :>
                   [amount |-> amount,
                    status |-> IF status = OmittedStatus THEN "pending" ELSE status,
                    userId |-> caller])
            /\ Respond("createInvoice", 201, caller, invoiceSeq + 1, "none")

\* ---- PUT /api/invoices/:id ----
\* patch: insertInvoiceSchema.partial(), the fields amount and status
applyInvoicePatch(row, patch) ==
    [row EXCEPT !.amount = IF patch.amount = Omitted THEN @ ELSE patch.amount,
                !.status = IF patch.status = OmittedStatus THEN @ ELSE patch.status]

UpdateInvoice(caller, id, patch) ==
    /\ UNCHANGED <<payments, paymentSeq, invoiceSeq, req, call, reports, clients>>
    /\ IF caller = NoUser
       THEN Respond("updateInvoice", 401, caller, id, "none") /\ UNCHANGED invoices
       ELSE IF id \notin DOMAIN invoices
       THEN Respond("updateInvoice", 404, caller, id, "none") /\ UNCHANGED invoices
       ELSE IF AccessDenied(caller, invoices[id])
       THEN Respond("updateInvoice", 403, caller, id, invoices[id].status)
            /\ UNCHANGED invoices
       ELSE IF patch.amount = Invalid
       THEN Respond("updateInvoice", 400, caller, id, invoices[id].status)
            /\ UNCHANGED invoices
       ELSE IF patch.amount = Omitted /\ patch.status = OmittedStatus
       THEN \* db.update().set({}) throws: no values to set
            Respond("updateInvoice", 500, caller, id, invoices[id].status)
            /\ UNCHANGED invoices
       ELSE /\ invoices' = [invoices EXCEPT ![id] = applyInvoicePatch(@, patch)]
            /\ Respond("updateInvoice", 200, caller, id, invoices[id].status)

\* ---- DELETE /api/invoices/:id ----
\* storage.deleteInvoice: db.delete(invoices).where(eq(invoices.id, id))
deleteInvoice(invs, pays, id) == [invs |-> Remove(invs, id), pays |-> pays]

DeleteInvoice(caller, id) ==
    /\ UNCHANGED <<paymentSeq, invoiceSeq, req, call, reports, clients>>
    /\ IF caller = NoUser
       THEN Respond("deleteInvoice", 401, caller, id, "none")
            /\ UNCHANGED <<invoices, payments>>
       ELSE IF id \notin DOMAIN invoices
       THEN Respond("deleteInvoice", 404, caller, id, "none")
            /\ UNCHANGED <<invoices, payments>>
       ELSE IF AccessDenied(caller, invoices[id])
       THEN Respond("deleteInvoice", 403, caller, id, invoices[id].status)
            /\ UNCHANGED <<invoices, payments>>
       ELSE /\ invoices' = deleteInvoice(invoices, payments, id).invs
            /\ payments' = deleteInvoice(invoices, payments, id).pays
            /\ Respond("deleteInvoice", 204, caller, id, invoices[id].status)

\* ---- POST /api/payments ----
\* the invoice lookup that precedes every write
InvoiceFound(invs, invoiceId) == invoiceId \in DOMAIN invs

\* [...invoicePayments, payment].reduce(...), invoicePayments read after the insert
CreateTotalPaid(pays, invoiceId, payment) ==
    SumAmounts(getPaymentsByInvoice(pays, invoiceId), pays) + payment.amount

\* the test with === for >=
MarkPaidNeeded_Exact(invoice, totalPaid) ==
    totalPaid = invoice.amount /\ invoice.status # "paid"

\* totalPaid >= Number(invoice.amount) && invoice.status !== "paid"
MarkPaidNeeded(invoice, totalPaid) ==
    totalPaid >= invoice.amount /\ invoice.status # "paid"

\* storage.createPayment, then the status update of the route;
\* fault: the storage call of the reconciliation that rejects ("none": no call does)
insertAndReconcile(caller, body, fault) ==
    LET id == body.invoiceId
        pre == StatusOf(invoices, id)
        invoice == invoices[id]
        payment == [invoiceId |-> id, amount |-> body.amount, date |-> body.date,
                    receiptGenerated |-> body.receiptGenerated, userId |-> caller]
        inserted == payments @@ (paymentSeq + 1 :> payment)
        totalPaid == CreateTotalPaid(inserted, id, payment)
    IN /\ paymentSeq < MaxPayments
       /\ paymentSeq' = paymentSeq + 1
       /\ payments' = inserted
       /\ IF fault = "read"
          THEN Respond("createPayment", 500, caller, id, pre) /\ UNCHANGED invoices
          ELSE IF MarkPaidNeeded(invoice, totalPaid)
          THEN IF fault = "write"
               THEN Respond("createPayment", 500, caller, id, pre)
                    /\ UNCHANGED invoices
               ELSE /\ invoices' = setStatus(invoices, id, "paid")
                    /\ Respond("createPayment", 201, caller, id, pre)
          ELSE Respond("createPayment", 201, caller, id, pre) /\ UNCHANGED invoices

\* the route with the invoice lookup placed after the insert
CreatePayment_LookupAfterInsert(caller, body, fault) ==
    LET id == body.invoiceId
        pre == StatusOf(invoices, id)
    IN
    /\ UNCHANGED <<invoiceSeq, req, call, reports, clients>>
    /\ IF caller = NoUser
       THEN Respond("createPayment", 401, caller, id, pre)
            /\ UNCHANGED <<invoices, payments, paymentSeq>>
       ELSE IF body.amount = Invalid
       THEN Respond("createPayment", 400, caller, id, pre)
            /\ UNCHANGED <<invoices, payments, paymentSeq>>
       ELSE IF ~InvoiceFound(invoices, id)
       THEN /\ paymentSeq < MaxPayments
            /\ paymentSeq' = paymentSeq + 1
            /\ payments' = payments @@ (paymentSeq + 1 :>
                   [invoiceId |-> id, amount |-> body.amount, date |-> body.date,
                    receiptGenerated |-> body.receiptGenerated,
                    userId |-> caller])
            /\ Respond("createPayment", 404, caller, id, pre)
            /\ UNCHANGED invoices
       ELSE IF AccessDenied(caller, invoices[id])
       THEN Respond("createPayment", 403, caller, id, pre)
            /\ UNCHANGED <<invoices, payments, paymentSeq>>
       ELSE insertAndReconcile(caller, body, fault)

CreatePayment(caller, body, fault) ==
    LET id == body.invoiceId
        pre == StatusOf(invoices, id)
    IN
    /\ UNCHANGED <<invoiceSeq, req, call, reports, clients>>
    /\ IF caller = NoUser
       THEN Respond("createPayment", 401, caller, id, pre)
            /\ UNCHANGED <<invoices, payments, paymentSeq>>
       ELSE IF ~InvoiceFound(invoices, id)
       THEN Respond("createPayment", 404, caller, id, pre)
            /\ UNCHANGED <<invoices, payments, paymentSeq>>
       ELSE IF AccessDenied(caller, invoices[id])
       THEN Respond("createPayment", 403, caller, id, pre)
            /\ UNCHANGED <<invoices, payments, paymentSeq>>
       ELSE IF body.amount = Invalid
       THEN Respond("createPayment", 400, caller, id, pre)
            /\ UNCHANGED <<invoices, payments, paymentSeq>>
       ELSE insertAndReconcile(caller, body, fault)

\* ---- PUT /api/payments/:id ----
\* an update that writes every column from the body, left out or not
applyPaymentPatch_Replace(row, patch) ==
    [row EXCEPT !.invoiceId = patch.invoiceId,
                !.amount = patch.amount,
                !.date = patch.date,
                !.receiptGenerated = patch.receiptGenerated = "true"]

\* patch: insertPaymentSchema.partial(); db.update(payments).set(patch) writes
\* the columns the patch names
applyPaymentPatch(row, patch) ==
    [row EXCEPT !.invoiceId = IF patch.invoiceId = Omitted THEN @ ELSE patch.invoiceId,
                !.amount = IF patch.amount = Omitted THEN @ ELSE patch.amount,
                !.date = IF patch.date = Omitted THEN @ ELSE patch.date,
                !.receiptGenerated = IF patch.receiptGenerated = OmittedFlag
                                     THEN @ ELSE patch.receiptGenerated = "true"]

\* a body none of whose keys is a column: set({}) has no values to set
EmptyPatch(patch) ==
    /\ patch.invoiceId = Omitted /\ patch.amount = Omitted
    /\ patch.date = Omitted /\ patch.receiptGenerated = OmittedFlag

\* an update that marks the invoice of the payment "paid" once it is covered
updatePaymentInvoices_MarksPaid(invs, pays, oldRow, newRow) ==
    IF /\ newRow.invoiceId \in DOMAIN invs
       /\ TotalPaid(pays, newRow.invoiceId) >= invs[newRow.invoiceId].amount
    THEN setStatus(invs, newRow.invoiceId, "paid")
    ELSE invs

\* what the route writes to the invoices table after storage.updatePayment
updatePaymentInvoices(invs, pays, oldRow, newRow) == invs

UpdatePayment(caller, pid, patch) ==
    LET found == pid \in DOMAIN payments
        id == IF found THEN payments[pid].invoiceId ELSE 0
        pre == StatusOf(invoices, id)
    IN
    /\ UNCHANGED <<invoiceSeq, paymentSeq, req, call, reports, clients>>
    /\ IF caller = NoUser
       THEN Respond("updatePayment", 401, caller, id, pre)
            /\ UNCHANGED <<invoices, payments>>
       ELSE IF ~found
       THEN Respond("updatePayment", 404, caller, id, pre)
            /\ UNCHANGED <<invoices, payments>>
       ELSE IF AccessDenied(caller, payments[pid])
       THEN Respond("updatePayment", 403, caller, id, pre)
            /\ UNCHANGED <<invoices, payments>>
       ELSE IF patch.amount = Invalid
       THEN Respond("updatePayment", 400, caller, id, pre)
            /\ UNCHANGED <<invoices, payments>>
       ELSE IF EmptyPatch(patch)
       THEN \* db.update().set({}) throws: no values to set
            Respond("updatePayment", 500, caller, id, pre)
            /\ UNCHANGED <<invoices, payments>>
       ELSE LET updated == [payments EXCEPT ![pid] = applyPaymentPatch(@, patch)]
            IN /\ payments' = updated
               /\ invoices' = updatePaymentInvoices(invoices, updated,
                                                    payments[pid], updated[pid])
               /\ Respond("updatePayment", 200, caller, id, pre)

\* ---- DELETE /api/payments/:id ----
\* the reopening test with <= for <
ReopenNeeded_AtMost(invoice, totalPaid) ==
    invoice.status = "paid" /\ totalPaid <= invoice.amount

\* invoice.status === "paid", then totalPaid < Number(invoice.amount)
ReopenNeeded(invoice, totalPaid) ==
    invoice.status = "paid" /\ totalPaid < invoice.amount

\* ---- the status-derivation steps of the payment routes ----
\* a create step that also reopens, from the stored sum
reconcileCreate_AlsoReopens(invs, pays, id, payment) ==
    IF MarkPaidNeeded(invs[id], CreateTotalPaid(pays, id, payment))
    THEN setStatus(invs, id, "paid")
    ELSE IF ReopenNeeded(invs[id], TotalPaid(pays, id))
    THEN setStatus(invs, id, "pending")
    ELSE invs

\* POST /api/payments after the insert: getPaymentsByInvoice, totalPaid, the
\* test and updateInvoice(invoice.id, { status: "paid" })
reconcileCreate(invs, pays, id, payment) ==
    IF MarkPaidNeeded(invs[id], CreateTotalPaid(pays, id, payment))
    THEN setStatus(invs, id, "paid")
    ELSE invs

\* DELETE /api/payments/:id after the delete: getInvoice, the remaining sum and
\* updateInvoice(invoice.id, { status: "pending" })
reconcileDelete(invs, pays, id) ==
    IF id \in DOMAIN invs /\ ReopenNeeded(invs[id], TotalPaid(pays, id))
    THEN setStatus(invs, id, "pending")
    ELSE invs

DeletePayment(caller, pid, fault) ==
    LET found == pid \in DOMAIN payments
        id == IF found THEN payments[pid].invoiceId ELSE 0
        pre == StatusOf(invoices, id)
    IN
    /\ UNCHANGED <<invoiceSeq, paymentSeq, req, call, reports, clients>>
    /\ IF caller = NoUser
       THEN Respond("deletePayment", 401, caller, id, pre)
            /\ UNCHANGED <<invoices, payments>>
       ELSE IF ~found
       THEN Respond("deletePayment", 404, caller, id, pre)
            /\ UNCHANGED <<invoices, payments>>
       ELSE IF AccessDenied(caller, payments[pid])
       THEN Respond("deletePayment", 403, caller, id, pre)
            /\ UNCHANGED <<invoices, payments>>
       ELSE LET remaining == Remove(payments, pid)
            IN /\ payments' = remaining
               /\ IF id \in DOMAIN invoices /\ invoices[id].status = "paid"
                  THEN IF fault = "read"
                       THEN Respond("deletePayment", 500, caller, id, pre)
                            /\ UNCHANGED invoices
                       ELSE IF ReopenNeeded(invoices[id], TotalPaid(remaining, id))
                       THEN IF fault = "write"
                            THEN Respond("deletePayment", 500, caller, id, pre)
                                 /\ UNCHANGED invoices
                            ELSE /\ invoices' = setStatus(invoices, id, "pending")
                                 /\ Respond("deletePayment", 204, caller, id, pre)
                       ELSE Respond("deletePayment", 204, caller, id, pre)
                            /\ UNCHANGED invoices
                  ELSE Respond("deletePayment", 204, caller, id, pre)
                       /\ UNCHANGED invoices

\* ---- request inputs ----
InvoiceIds == 1..MaxInvoices
PaymentIds == 1..MaxPayments
\* the ledger specifications drive POST /api/payments with every kind of
\* request (nobody logged in, a body the schema rejects); the other routes get
\* the requests of accountant 2 that pass the session check and the schema
LedgerCallers == {2}
CreateCallers == {NoUser, 2}
InvoiceBodies == [amount : InvoiceAmounts, status : Statuses \cup {OmittedStatus}]
InvoicePatches == [amount : InvoiceAmounts \cup {Omitted},
                   status : Statuses \cup {OmittedStatus}]
PaymentBodies == [invoiceId : InvoiceIds, amount : PaymentAmounts \cup {Invalid},
                  date : PaymentDates, receiptGenerated : {FALSE},
                  currency : Currencies]
PaymentPatches == [invoiceId : InvoiceIds \cup {Omitted},
                   amount : PaymentAmounts \cup {Omitted},
                   date : {Omitted}, receiptGenerated : {OmittedFlag}]

\* ---- requests served one at a time, storage never failing ----
Next ==
    \/ \E c \in LedgerCallers, b \in InvoiceBodies :
          CreateInvoice(c, b.amount, b.status)
    \/ \E c \in LedgerCallers, i \in InvoiceIds, p \in InvoicePatches :
          UpdateInvoice(c, i, p)
    \/ \E c \in LedgerCallers, i \in InvoiceIds : DeleteInvoice(c, i)
    \/ \E c \in CreateCallers, b \in PaymentBodies : CreatePayment(c, b, "none")
    \/ \E c \in LedgerCallers, p \in PaymentIds, b \in PaymentPatches :
          UpdatePayment(c, p, b)
    \/ \E c \in LedgerCallers, p \in PaymentIds : DeletePayment(c, p, "none")

Spec == Init /\ [][Next]_vars

\* ---- payment requests only, on freshly created invoices (PaySpec) ----
\* the store after MaxInvoices invoice creates by accountant 2, either with the
\* default status or already marked "overdue"
PayInit ==
    /\ invoices \in [InvoiceIds -> [amount : InvoiceAmounts,
                                    status : {"pending", "overdue"},
                                    userId : {2}]]
    /\ payments = <<>>
    /\ invoiceSeq = MaxInvoices
    /\ paymentSeq = 0
    /\ last = [op |-> "createInvoice", code |-> 201, caller |-> 2,
               inv |-> MaxInvoices, preStatus |-> "none"]
    /\ req = [r \in Reqs |-> NoReq]
    /\ reports = <<>>
    /\ clients = NoClients
    /\ call = NoCall

PayNext ==
    \/ \E c \in CreateCallers, b \in PaymentBodies : CreatePayment(c, b, "none")
    \/ \E c \in LedgerCallers, p \in PaymentIds, b \in PaymentPatches :
          UpdatePayment(c, p, b)
    \/ \E c \in LedgerCallers, p \in PaymentIds : DeletePayment(c, p, "none")

PaySpec == PayInit /\ [][PayNext]_vars

\* ---- storage calls of the reconciliation may reject (FaultSpec) ----
FaultNext ==
    \/ \E c \in LedgerCallers, b \in InvoiceBodies :
          CreateInvoice(c, b.amount, b.status)
    \/ \E c \in CreateCallers, b \in PaymentBodies, f \in Faults \cup {"none"} :
          CreatePayment(c, b, f)
    \/ \E c \in LedgerCallers, p \in PaymentIds, f \in Faults \cup {"none"} :
          DeletePayment(c, p, f)

FaultSpec == Init /\ [][FaultNext]_vars

\* ---- two handlers in flight, one storage call per step (ConcSpec) ----
\* every await of POST /api/payments and DELETE /api/payments/:id is a point
\* where the other handler may run; no transaction or lock spans the calls
Idle(r) == req[r].pc = "idle"

\* POST /api/payments up to the first await: storage.getInvoice
BeginCreate(r, caller, body) ==
    LET id == body.invoiceId
        pre == StatusOf(invoices, id)
    IN
    /\ Idle(r)
    /\ UNCHANGED <<store, call, reports, clients>>
    /\ IF caller = NoUser
       THEN Respond("createPayment", 401, caller, id, pre) /\ UNCHANGED req
       ELSE IF ~InvoiceFound(invoices, id)
       THEN Respond("createPayment", 404, caller, id, pre) /\ UNCHANGED req
       ELSE IF AccessDenied(caller, invoices[id])
       THEN Respond("createPayment", 403, caller, id, pre) /\ UNCHANGED req
       ELSE IF body.amount = Invalid
       THEN Respond("createPayment", 400, caller, id, pre) /\ UNCHANGED req
       ELSE /\ paymentSeq + Cardinality({o \in Reqs : req[o].pc = "c_insert"})
                  < MaxPayments
            /\ req' = [req EXCEPT ![r] =
                   [pc |-> "c_insert", caller |-> caller, inv |-> id,
                    invoice |-> invoices[id], amount |-> body.amount,
                    date |-> body.date,
                    receiptGenerated |-> body.receiptGenerated]]
            /\ UNCHANGED last

\* await storage.createPayment(parsedData.data)
CreateInsert(r) ==
    /\ req[r].pc = "c_insert"
    /\ paymentSeq' = paymentSeq + 1
    /\ payments' = payments @@ (paymentSeq + 1 :>
           [invoiceId |-> req[r].inv, amount |-> req[r].amount,
            date |-> req[r].date, receiptGenerated |-> req[r].receiptGenerated,
            userId |-> req[r].caller])
    /\ req' = [req EXCEPT ![r].pc = "c_read"]
    /\ UNCHANGED <<invoices, invoiceSeq, last, call, reports, clients>>

\* await storage.getPaymentsByInvoice(invoice.id), totalPaid and the status test
CreateRead(r) ==
    LET payment == [amount |-> req[r].amount]
        totalPaid == CreateTotalPaid(payments, req[r].inv, payment)
    IN
    /\ req[r].pc = "c_read"
    /\ UNCHANGED <<store, call, reports, clients>>
    /\ IF MarkPaidNeeded(req[r].invoice, totalPaid)
       THEN req' = [req EXCEPT ![r].pc = "c_write"] /\ UNCHANGED last
       ELSE /\ req' = [req EXCEPT ![r] = NoReq]
            /\ Respond("createPayment", 201, req[r].caller, req[r].inv,
                       req[r].invoice.status)

\* await storage.updateInvoice(invoice.id, { status: "paid" })
CreateWrite(r) ==
    /\ req[r].pc = "c_write"
    /\ invoices' = setStatus(invoices, req[r].inv, "paid")
    /\ req' = [req EXCEPT ![r] = NoReq]
    /\ Respond("createPayment", 201, req[r].caller, req[r].inv,
               req[r].invoice.status)
    /\ UNCHANGED <<payments, invoiceSeq, paymentSeq, call, reports, clients>>

\* DELETE /api/payments/:id up to the first await: storage.getPayment
BeginDelete(r, caller, pid) ==
    LET found == pid \in DOMAIN payments
        id == IF found THEN payments[pid].invoiceId ELSE 0
        pre == StatusOf(invoices, id)
    IN
    /\ Idle(r)
    /\ UNCHANGED <<store, call, reports, clients>>
    /\ IF caller = NoUser
       THEN Respond("deletePayment", 401, caller, id, pre) /\ UNCHANGED req
       ELSE IF ~found
       THEN Respond("deletePayment", 404, caller, id, pre) /\ UNCHANGED req
       ELSE IF AccessDenied(caller, payments[pid])
       THEN Respond("deletePayment", 403, caller, id, pre) /\ UNCHANGED req
       ELSE /\ req' = [req EXCEPT ![r] =
                   [pc |-> "d_delete", caller |-> caller, inv |-> id, pid |-> pid]]
            /\ UNCHANGED last

\* await storage.deletePayment(id)
DeleteRow(r) ==
    /\ req[r].pc = "d_delete"
    /\ payments' = Remove(payments, req[r].pid)
    /\ req' = [req EXCEPT ![r].pc = "d_invoice"]
    /\ UNCHANGED <<invoices, invoiceSeq, paymentSeq, last, call, reports, clients>>

\* await storage.getInvoice(payment.invoiceId) and the test of its status
DeleteGetInvoice(r) ==
    LET id == req[r].inv IN
    /\ req[r].pc = "d_invoice"
    /\ UNCHANGED <<store, call, reports, clients>>
    /\ IF id \in DOMAIN invoices /\ invoices[id].status = "paid"
       THEN /\ req' = [req EXCEPT ![r] =
                   [pc |-> "d_read", caller |-> req[r].caller, inv |-> id,
                    pid |-> req[r].pid, invoice |-> invoices[id]]]
            /\ UNCHANGED last
       ELSE /\ req' = [req EXCEPT ![r] = NoReq]
            /\ Respond("deletePayment", 204, req[r].caller, id,
                       StatusOf(invoices, id))

\* await storage.getPaymentsByInvoice(invoice.id), totalPaid and the amount test
DeleteRead(r) ==
    /\ req[r].pc = "d_read"
    /\ UNCHANGED <<store, call, reports, clients>>
    /\ IF ReopenNeeded(req[r].invoice, TotalPaid(payments, req[r].inv))
       THEN req' = [req EXCEPT ![r].pc = "d_write"] /\ UNCHANGED last
       ELSE /\ req' = [req EXCEPT ![r] = NoReq]
            /\ Respond("deletePayment", 204, req[r].caller, req[r].inv, "paid")

\* await storage.updateInvoice(invoice.id, { status: "pending" })
DeleteWrite(r) ==
    /\ req[r].pc = "d_write"
    /\ invoices' = setStatus(invoices, req[r].inv, "pending")
    /\ req' = [req EXCEPT ![r] = NoReq]
    /\ Respond("deletePayment", 204, req[r].caller, req[r].inv, "paid")
    /\ UNCHANGED <<payments, invoiceSeq, paymentSeq, call, reports, clients>>

ConcNext ==
    \/ \E c \in LedgerCallers, b \in InvoiceBodies :
          CreateInvoice(c, b.amount, b.status)
    \/ \E r \in Reqs, c \in CreateCallers, b \in PaymentBodies : BeginCreate(r, c, b)
    \/ \E r \in Reqs : CreateInsert(r)
    \/ \E r \in Reqs : CreateRead(r)
    \/ \E r \in Reqs : CreateWrite(r)
    \/ \E r \in Reqs, c \in LedgerCallers, p \in PaymentIds : BeginDelete(r, c, p)
    \/ \E r \in Reqs : DeleteRow(r)
    \/ \E r \in Reqs : DeleteGetInvoice(r)
    \/ \E r \in Reqs : DeleteRead(r)
    \/ \E r \in Reqs : DeleteWrite(r)

ConcSpec == Init /\ [][ConcNext]_vars

\* ---- two invoices, handlers of all three payment routes in flight (FrameSpec) ----
\* PUT /api/payments/:id up to its second await: storage.getPayment and the
\* checks of the route
BeginUpdate(r, caller, pid, patch) ==
    LET found == pid \in DOMAIN payments
        id == IF found THEN payments[pid].invoiceId ELSE 0
        pre == StatusOf(invoices, id)
    IN
    /\ Idle(r)
    /\ UNCHANGED <<store, call, reports, clients>>
    /\ IF caller = NoUser
       THEN Respond("updatePayment", 401, caller, id, pre) /\ UNCHANGED req
       ELSE IF ~found
       THEN Respond("updatePayment", 404, caller, id, pre) /\ UNCHANGED req
       ELSE IF AccessDenied(caller, payments[pid])
       THEN Respond("updatePayment", 403, caller, id, pre) /\ UNCHANGED req
       ELSE IF patch.amount = Invalid
       THEN Respond("updatePayment", 400, caller, id, pre) /\ UNCHANGED req
       ELSE /\ req' = [req EXCEPT ![r] =
                   [pc |-> "u_update", caller |-> caller, inv |-> id, pid |-> pid,
                    patch |-> patch]]
            /\ UNCHANGED last

\* await storage.updatePayment(id, parsedData.data) and res.json(updatedPayment);
\* a row deleted in the meantime: the update matches nothing and returns undefined
UpdateRow(r) ==
    LET pid == req[r].pid
        patch == req[r].patch
        pre == StatusOf(invoices, req[r].inv)
    IN
    /\ req[r].pc = "u_update"
    /\ req' = [req EXCEPT ![r] = NoReq]
    /\ UNCHANGED <<invoiceSeq, paymentSeq, call, reports, clients>>
    /\ IF EmptyPatch(patch)
       THEN Respond("updatePayment", 500, req[r].caller, req[r].inv, pre)
            /\ UNCHANGED <<invoices, payments>>
       ELSE IF pid \notin DOMAIN payments
       THEN Respond("updatePayment", 200, req[r].caller, req[r].inv, pre)
            /\ UNCHANGED <<invoices, payments>>
       ELSE LET updated == [payments EXCEPT ![pid] = applyPaymentPatch(@, patch)]
            IN /\ payments' = updated
               /\ invoices' = updatePaymentInvoices(invoices, updated,
                                                    payments[pid], updated[pid])
               /\ Respond("updatePayment", 200, req[r].caller, req[r].inv, pre)

FrameIds == {1, 2}        \* invoice A and invoice B
FrameAmounts == {60}
FrameBodies == [invoiceId : FrameIds, amount : FrameAmounts, date : PaymentDates,
                receiptGenerated : {FALSE}, currency : {"USD"}]
FramePatches == [invoiceId : FrameIds \cup {Omitted},
                 amount : FrameAmounts \cup {Omitted},
                 date : {Omitted}, receiptGenerated : {OmittedFlag}]

\* the store after accountant 2 has created both invoices
FrameInit ==
    /\ invoices \in [FrameIds -> [amount : FrameAmounts,
                                  status : {"pending", "paid"}, userId : {2}]]
    /\ payments = <<>>
    /\ invoiceSeq = 2
    /\ paymentSeq = 0
    /\ last = [op |-> "createInvoice", code |-> 201, caller |-> 2, inv |-> 2,
               preStatus |-> "none"]
    /\ req = [r \in Reqs |-> NoReq]
    /\ reports = <<>>
    /\ clients = NoClients
    /\ call = NoCall

FrameNext ==
    \/ \E r \in Reqs, c \in LedgerCallers, b \in FrameBodies : BeginCreate(r, c, b)
    \/ \E r \in Reqs : CreateInsert(r)
    \/ \E r \in Reqs : CreateRead(r)
    \/ \E r \in Reqs : CreateWrite(r)
    \/ \E r \in Reqs, c \in LedgerCallers, p \in PaymentIds : BeginDelete(r, c, p)
    \/ \E r \in Reqs : DeleteRow(r)
    \/ \E r \in Reqs : DeleteGetInvoice(r)
    \/ \E r \in Reqs : DeleteRead(r)
    \/ \E r \in Reqs : DeleteWrite(r)
    \/ \E r \in Reqs, c \in LedgerCallers, p \in PaymentIds, b \in FramePatches :
          BeginUpdate(r, c, p, b)
    \/ \E r \in Reqs : UpdateRow(r)

FrameSpec == FrameInit /\ [][FrameNext]_vars

\* ---- receipts (ReceiptSpec) ----
\* generateReceiptMutation: PUT /api/payments/:id { receiptGenerated: true }
ReceiptPatch == [invoiceId |-> Omitted, amount |-> Omitted, date |-> Omitted,
                 receiptGenerated |-> "true"]

GenerateReceipt(caller, pid) == UpdatePayment(caller, pid, ReceiptPatch)

ReceiptDates == {1, 2}
ReceiptBodies == [invoiceId : InvoiceIds, amount : PaymentAmounts,
                  date : ReceiptDates, receiptGenerated : {FALSE},
                  currency : {"USD"}]
ReceiptPatches == [invoiceId : {Omitted}, amount : PaymentAmounts \cup {Omitted},
                   date : ReceiptDates \cup {Omitted},
                   receiptGenerated : {OmittedFlag, "true", "false"}]

\* the store after accountant 2 has created one invoice of 100
ReceiptInit ==
    /\ invoices = (1 :> [amount |-> 100, status |-> "pending", userId |-> 2])
    /\ payments = <<>>
    /\ invoiceSeq = 1
    /\ paymentSeq = 0
    /\ last = [op |-> "createInvoice", code |-> 201, caller |-> 2, inv |-> 1,
               preStatus |-> "none"]
    /\ req = [r \in Reqs |-> NoReq]
    /\ reports = <<>>
    /\ clients = NoClients
    /\ call = NoCall

ReceiptNext ==
    \/ \E c \in LedgerCallers, b \in ReceiptBodies : CreatePayment(c, b, "none")
    \/ \E c \in CreateCallers, p \in PaymentIds : GenerateReceipt(c, p)
    \/ \E c \in LedgerCallers, p \in PaymentIds, b \in ReceiptPatches :
          UpdatePayment(c, p, b)
    \/ \E c \in LedgerCallers, p \in PaymentIds : DeletePayment(c, p, "none")

ReceiptSpec == ReceiptInit /\ [][ReceiptNext]_vars

\* ---- Number: IEEE 754 binary64, as the currency utilities compute with it ----
\* a natural number of any size is the sequence of its digits in base LimbBase,
\* lowest first, without leading zeros; a significand has Precision bits
LimbBits == 15
LimbBase == 2 ^ LimbBits
Precision == 53

RECURSIVE BigNorm(_)
BigNorm(a) ==
    IF a # <<>> /\ a[Len(a)] = 0 THEN BigNorm(SubSeq(a, 1, Len(a) - 1)) ELSE a

RECURSIVE BigOfInt(_)
BigOfInt(n) == IF n = 0 THEN <<>> ELSE <<n % LimbBase>> \o BigOfInt(n \div LimbBase)

RECURSIVE BigToInt(_)
BigToInt(a) == IF a = <<>> THEN 0 ELSE a[1] + LimbBase * BigToInt(Tail(a))

RECURSIVE BigMulSmallC(_, _, _)
BigMulSmallC(a, m, carry) ==
    IF a = <<>> THEN BigOfInt(carry)
    ELSE LET v == a[1] * m + carry
         IN <<v % LimbBase>> \o BigMulSmallC(Tail(a), m, v \div LimbBase)

\* a * m, m < LimbBase
BigMulSmall(a, m) == BigNorm(BigMulSmallC(a, m, 0))

RECURSIVE BigDivSmallR(_, _)
BigDivSmallR(a, d) ==
    IF a = <<>> THEN [q |-> <<>>, r |-> 0]
    ELSE LET hi == BigDivSmallR(Tail(a), d)
             v == hi.r * LimbBase + a[1]
         IN [q |-> <<v \div d>> \o hi.q, r |-> v % d]

\* quotient and remainder of a by d, d <= LimbBase
BigDivSmall(a, d) ==
    LET x == BigDivSmallR(a, d) IN [q |-> BigNorm(x.q), r |-> x.r]

RECURSIVE BigAddC(_, _, _)
BigAddC(a, b, carry) ==
    IF a = <<>> /\ b = <<>> THEN BigOfInt(carry)
    ELSE LET x == IF a = <<>> THEN 0 ELSE a[1]
             y == IF b = <<>> THEN 0 ELSE b[1]
             v == x + y + carry
         IN <<v % LimbBase>> \o BigAddC(IF a = <<>> THEN a ELSE Tail(a),
                                        IF b = <<>> THEN b ELSE Tail(b),
                                        v \div LimbBase)

BigAdd(a, b) == BigNorm(BigAddC(a, b, 0))

RECURSIVE BigSubB(_, _, _)
BigSubB(a, b, borrow) ==
    IF a = <<>> THEN <<>>
    ELSE LET y == IF b = <<>> THEN 0 ELSE b[1]
             v == a[1] - y - borrow
         IN <<(v + LimbBase) % LimbBase>>
               \o BigSubB(Tail(a), IF b = <<>> THEN b ELSE Tail(b),
                          IF v < 0 THEN 1 ELSE 0)

\* a - b, for a >= b
BigSub(a, b) == BigNorm(BigSubB(a, b, 0))

RECURSIVE BigCmpFrom(_, _, _)
BigCmpFrom(a, b, i) ==
    IF i = 0 THEN 0
    ELSE IF a[i] > b[i] THEN 1
    ELSE IF a[i] < b[i] THEN -1
    ELSE BigCmpFrom(a, b, i - 1)

\* -1, 0 or 1 as a is below, equal to or above b
BigCmp(a, b) ==
    IF Len(a) > Len(b) THEN 1
    ELSE IF Len(a) < Len(b) THEN -1
    ELSE BigCmpFrom(a, b, Len(a))

ShiftLimbs(a, n) == IF a = <<>> THEN a ELSE [i \in 1..n |-> 0] \o a

RECURSIVE BigMul(_, _)
BigMul(a, b) ==
    IF b = <<>> THEN <<>>
    ELSE BigAdd(BigMulSmall(a, b[1]), ShiftLimbs(BigMul(a, Tail(b)), 1))

RECURSIVE BitLenSmall(_)
BitLenSmall(n) == IF n = 0 THEN 0 ELSE 1 + BitLenSmall(n \div 2)

BigBitLen(a) ==
    IF a = <<>> THEN 0 ELSE LimbBits * (Len(a) - 1) + BitLenSmall(a[Len(a)])

\* a * 2^k
BigShl(a, k) == BigMulSmall(ShiftLimbs(a, k \div LimbBits), 2 ^ (k % LimbBits))

\* floor(a / 2^k)
BigShr(a, k) ==
    LET w == k \div LimbBits
    IN IF w >= Len(a) THEN <<>>
       ELSE BigDivSmall(SubSeq(a, w + 1, Len(a)), 2 ^ (k % LimbBits)).q

\* the digit d with d * b <= v < (d + 1) * b, for v < LimbBase * b and b with
\* its highest bit at the top of its last limb: the estimate from the two
\* leading digits of v is at most 2 above it
QuotientDigit(v, b) ==
    LET n == Len(b)
        top == (IF Len(v) > n THEN v[n + 1] * LimbBase ELSE 0)
                  + (IF Len(v) >= n THEN v[n] ELSE 0)
        est == IF top \div b[n] >= LimbBase THEN LimbBase - 1 ELSE top \div b[n]
    IN CHOOSE d \in {est - 2, est - 1, est} :
          /\ d >= 0
          /\ BigCmp(BigMulSmall(b, d), v) <= 0
          /\ BigCmp(BigAdd(BigMulSmall(b, d), b), v) = 1

\* one step of the long division: the quotient so far, the running value v
\* and its digit d
DivideDigit(hi, v, d, b) ==
    [q |-> <<d>> \o hi.q, r |-> BigSub(v, BigMulSmall(b, d))]

\* the step that takes the digit a1 of the dividend
DivideStep(hi, a1, v, b) ==
    IF hi.r = <<>> /\ a1 = 0 THEN [q |-> <<0>> \o hi.q, r |-> <<>>]
    ELSE DivideDigit(hi, v, QuotientDigit(v, b), b)

RECURSIVE BigDivModR(_, _)
\* long division in base LimbBase, the highest digit of a first
BigDivModR(a, b) ==
    IF a = <<>> THEN [q |-> <<>>, r |-> <<>>]
    ELSE LET hi == BigDivModR(Tail(a), b)
         IN DivideStep(hi, a[1], BigAdd(ShiftLimbs(hi.r, 1), BigOfInt(a[1])), b)

Quotient(x) == [q |-> BigNorm(x.q), sticky |-> x.r # <<>>]

\* the quotient of a by b, b > 0, and whether a remainder was dropped
BigDivMod(a, b) ==
    LET sh == LimbBits - BitLenSmall(b[Len(b)])
    IN Quotient(BigDivModR(BigShl(a, sh), BigShl(b, sh)))

RECURSIVE BigMulPow10(_, _)
BigMulPow10(a, k) ==
    IF a = <<>> \/ k = 0 THEN a ELSE BigMulPow10(BigMulSmall(a, 10), k - 1)

RECURSIVE BigDivPow10(_, _, _)
\* floor(a / 10^k), and whether a remainder was dropped
BigDivPow10(a, k, sticky) ==
    IF a = <<>> \/ k = 0 THEN [q |-> a, sticky |-> sticky]
    ELSE LET x == BigDivSmall(a, 10)
         IN BigDivPow10(x.q, k - 1, sticky \/ x.r # 0)

\* the values of type Number
NaN == [kind |-> "nan"]
Infinity(neg) == [kind |-> "inf", neg |-> neg]
\* m * 2^e, m = 0 or a significand of exactly Precision bits
Finite(neg, m, e) == [kind |-> "fin", neg |-> neg, m |-> m, e |-> e]
Zero(neg) == Finite(neg, <<>>, 0)

\* the significand q with the dropped part compared to half a unit (cmp), a
\* tie going to the even significand
RoundUp(q, cmp, sticky) ==
    IF cmp = 1 \/ (cmp = 0 /\ (sticky \/ q[1] % 2 = 1)) THEN BigAdd(q, <<1>>)
    ELSE q

\* a rounded significand that grew to Precision + 1 bits is a power of two
Renormalized(neg, m, e) ==
    IF BigBitLen(m) > Precision THEN Finite(neg, BigShr(m, 1), e + 1)
    ELSE Finite(neg, m, e)

\* M without its k lowest bits is q
RoundDropped(neg, M, e, sticky, k, q) ==
    Renormalized(neg,
                 RoundUp(q, BigCmp(BigSub(M, BigShl(q, k)), BigShl(<<1>>, k - 1)),
                         sticky),
                 e + k)

\* M has n bits
RoundBits(neg, M, e, sticky, n) ==
    IF n = 0 THEN Zero(neg)
    ELSE IF n <= Precision
    THEN Finite(neg, BigShl(M, Precision - n), e - (Precision - n))
    ELSE RoundDropped(neg, M, e, sticky, n - Precision, BigShr(M, n - Precision))

\* the Number nearest to M * 2^e (plus a dropped positive part below one unit
\* of M when sticky), ties to the even significand; exponents stay in range
\* for the amounts modelled
RoundToDouble(neg, M, e, sticky) == RoundBits(neg, M, e, sticky, BigBitLen(M))

\* the Number nearest to d.q * 2^e, d a quotient
RoundQuotient(neg, d, e) == RoundToDouble(neg, d.q, e, d.sticky)

\* the Number value of the decimal N * 10^p
DecimalToDouble(neg, N, p) ==
    IF N = <<>> THEN Zero(neg)
    ELSE IF p >= 0 THEN RoundToDouble(neg, BigMulPow10(N, p), 0, FALSE)
    ELSE RoundQuotient(neg, BigDivPow10(BigShl(N, 60 + 4 * (-p)), -p, FALSE),
                       -(60 + 4 * (-p)))

DoubleOfInt(n) == RoundToDouble(n < 0, BigOfInt(IF n < 0 THEN -n ELSE n), 0, FALSE)

\* x * y
fmul(x, y) ==
    IF x.kind = "nan" \/ y.kind = "nan" THEN NaN
    ELSE IF x.kind = "inf" \/ y.kind = "inf"
    THEN IF (x.kind = "fin" /\ x.m = <<>>) \/ (y.kind = "fin" /\ y.m = <<>>)
         THEN NaN ELSE Infinity(x.neg # y.neg)
    ELSE RoundToDouble(x.neg # y.neg, BigMul(x.m, y.m), x.e + y.e, FALSE)

\* x / y
fdiv(x, y) ==
    IF x.kind = "nan" \/ y.kind = "nan" THEN NaN
    ELSE IF x.kind = "inf"
    THEN IF y.kind = "inf" THEN NaN ELSE Infinity(x.neg # y.neg)
    ELSE IF y.kind = "inf" THEN Zero(x.neg # y.neg)
    ELSE IF y.m = <<>>
    THEN IF x.m = <<>> THEN NaN ELSE Infinity(x.neg # y.neg)
    ELSE RoundQuotient(x.neg # y.neg, BigDivMod(BigShl(x.m, Precision + 3), y.m),
                       x.e - y.e - (Precision + 3))

\* the sum of the magnitudes X * 2^e and Y * 2^e with their signs; equal
\* magnitudes of opposite signs give +0
AddMagnitudes(xneg, X, yneg, Y, e) ==
    IF xneg = yneg THEN RoundToDouble(xneg, BigAdd(X, Y), e, FALSE)
    ELSE IF BigCmp(X, Y) = 0 THEN Zero(FALSE)
    ELSE IF BigCmp(X, Y) = 1 THEN RoundToDouble(xneg, BigSub(X, Y), e, FALSE)
    ELSE RoundToDouble(yneg, BigSub(Y, X), e, FALSE)

AddAligned(x, y, e) ==
    AddMagnitudes(x.neg, BigShl(x.m, x.e - e), y.neg, BigShl(y.m, y.e - e), e)

\* x + y
fadd(x, y) ==
    IF x.kind = "nan" \/ y.kind = "nan" THEN NaN
    ELSE IF x.kind = "inf"
    THEN IF y.kind = "inf" /\ y.neg # x.neg THEN NaN ELSE x
    ELSE IF y.kind = "inf" THEN y
    ELSE IF x.m = <<>> THEN (IF y.m = <<>> THEN Zero(x.neg /\ y.neg) ELSE y)
    ELSE IF y.m = <<>> THEN x
    ELSE AddAligned(x, y, IF x.e < y.e THEN x.e ELSE y.e)

\* x - y
fsub(x, y) ==
    IF y.kind = "nan" THEN NaN ELSE fadd(x, [y EXCEPT !.neg = ~y.neg])

\* x = twice / 2 + a dropped part, for a finite x that is no integer
RoundHalves(x, twice) ==
    LET f2 == BigToInt(twice)
        exact == BigShl(twice, -x.e - 1) = x.m
    IN [kind |-> "int",
        n |-> IF ~x.neg THEN (f2 + 1) \div 2
              ELSE IF exact \/ f2 % 2 = 0 THEN -(f2 \div 2)
              ELSE -((f2 + 1) \div 2)]

\* Math.round(x): the integer nearest to x, a tie going to the one closer to
\* +Infinity; an integer is [kind |-> "int", n |-> its value]
MathRound(x) ==
    IF x.kind # "fin" THEN x
    ELSE IF x.e >= 0
    THEN [kind |-> "int",
          n |-> (IF x.neg THEN -1 ELSE 1) * BigToInt(BigShl(x.m, x.e))]
    ELSE RoundHalves(x, BigShr(x.m, -x.e - 1))

\* ---- strings: sequences of one-character strings ----
Digits == <<"0", "1", "2", "3", "4", "5", "6", "7", "8", "9">>
IsDigit(c) == \E d \in 1..10 : Digits[d] = c
DigitValue(c) == (CHOOSE d \in 1..10 : Digits[d] = c) - 1
WhiteSpace == {" ", "\t", "\n"}
InfinityText == <<"I", "n", "f", "i", "n", "i", "t", "y">>
NaNText == <<"N", "a", "N">>

RECURSIVE SkipWhite(_, _)
SkipWhite(s, i) ==
    IF i <= Len(s) /\ s[i] \in WhiteSpace THEN SkipWhite(s, i + 1) ELSE i

RECURSIVE SpanDigits(_, _)
\* the index after the digits that start at i
SpanDigits(s, i) ==
    IF i <= Len(s) /\ IsDigit(s[i]) THEN SpanDigits(s, i + 1) ELSE i

RECURSIVE BigOfDigits(_, _)
\* the number the digits of s (anything else skipped) spell, on top of acc
BigOfDigits(s, acc) ==
    IF s = <<>> THEN acc
    ELSE IF IsDigit(s[1])
    THEN BigOfDigits(Tail(s), BigAdd(BigMulSmall(acc, 10),
                                      BigOfInt(DigitValue(s[1]))))
    ELSE BigOfDigits(Tail(s), acc)

RECURSIVE BigDigits(_)
\* the decimal digits of a, none for zero
BigDigits(a) ==
    IF a = <<>> THEN <<>>
    ELSE LET x == BigDivSmall(a, 10) IN BigDigits(x.q) \o <<Digits[x.r + 1]>>

\* digits with a point before the last two, zeros put in front as needed
PointedText(d) ==
    SubSeq(d, 1, Len(d) - 2) \o <<".">> \o SubSeq(d, Len(d) - 1, Len(d))
PaddedText(d) == [i \in 1..(3 - Len(d)) |-> "0"] \o d

\* n hundredths written with two fraction digits
HundredthsText(n) == PointedText(PaddedText(BigDigits(n)))

\* the exponent part that starts at i, 0 when there is none: e or E, a sign,
\* digits
ExponentPart(s, i) ==
    LET hasE == i <= Len(s) /\ s[i] \in {"e", "E"}
        eSigned == hasE /\ i + 1 <= Len(s) /\ s[i + 1] \in {"+", "-"}
        eStart == i + 1 + (IF eSigned THEN 1 ELSE 0)
    IN IF ~hasE THEN 0
       ELSE (IF eSigned /\ s[i + 1] = "-" THEN -1 ELSE 1)
               * BigToInt(BigOfDigits(SubSeq(s, eStart, SpanDigits(s, eStart) - 1),
                                      <<>>))

\* the value of the digits from i1 up to fracEnd, with the point (if any) at
\* intEnd; NaN when there is no digit
DecimalValue(s, neg, i1, intEnd, fracEnd) ==
    LET nFrac == IF fracEnd > intEnd THEN fracEnd - intEnd - 1 ELSE 0
        nInt == intEnd - i1
    IN IF nInt = 0 /\ nFrac = 0 THEN NaN
       ELSE DecimalToDouble(neg, BigOfDigits(SubSeq(s, i1, fracEnd - 1), <<>>),
                            ExponentPart(s, fracEnd) - nFrac)

\* the digits before the point end at intEnd
FractionPart(s, neg, i1, intEnd) ==
    DecimalValue(s, neg, i1, intEnd,
                 IF intEnd <= Len(s) /\ s[intEnd] = "."
                 THEN SpanDigits(s, intEnd + 1) ELSE intEnd)

\* a sign, then Infinity or a decimal literal
SignedLiteral(s, i0) ==
    LET signed == i0 <= Len(s) /\ s[i0] \in {"+", "-"}
        neg == signed /\ s[i0] = "-"
        i1 == IF signed THEN i0 + 1 ELSE i0
    IN IF i1 + 7 <= Len(s) /\ SubSeq(s, i1, i1 + 7) = InfinityText
       THEN Infinity(neg)
       ELSE FractionPart(s, neg, i1, SpanDigits(s, i1))

\* parseFloat(s): leading white space, a sign, then Infinity or the longest
\* prefix that is a decimal literal; NaN when there is none
parseFloat(s) == SignedLiteral(s, SkipWhite(s, 1))

\* a decimal numeral: an optional sign, digits, at most one point
IsDecimalText(s) ==
    LET body == IF s # <<>> /\ s[1] \in {"+", "-"} THEN Tail(s) ELSE s
    IN /\ \A i \in 1..Len(body) : IsDigit(body[i]) \/ body[i] = "."
       /\ Cardinality({i \in 1..Len(body) : body[i] = "."}) <= 1
       /\ \E i \in 1..Len(body) : IsDigit(body[i])

\* Number(s): the whole text has to be a numeral, the empty text is 0
Number(s) ==
    IF IsDecimalText(s) THEN parseFloat(s)
    ELSE IF s = <<>> THEN Zero(FALSE)
    ELSE NaN

\* x.toFixed(2)
toFixed2(x) ==
    IF x.kind = "nan" THEN NaNText
    ELSE IF x.kind = "inf"
    THEN (IF x.neg THEN <<"-">> ELSE <<>>) \o InfinityText
    ELSE LET n == IF x.e >= 0 THEN BigMulSmall(BigShl(x.m, x.e), 100)
                  ELSE BigShr(BigAdd(BigMulSmall(x.m, 200), BigShl(<<1>>, -x.e)),
                              1 - x.e)
         IN (IF x.neg /\ x.m # <<>> THEN <<"-">> ELSE <<>>) \o HundredthsText(n)

\* ---- currency utilities (client/src/lib) ----
\* an amount argument: a string, or a number written as its literal
NumberOf(amount) ==
    IF amount.type = "number" /\ amount.text = NaNText THEN NaN
    ELSE parseFloat(amount.text)

\* dinero({ amount, currency }) of dinero.js: an amount that is not an integer
\* is refused
dinero(amount, currency) ==
    IF amount.kind = "int"
    THEN [ok |-> TRUE, amount |-> amount.n, currency |-> currency]
    ELSE [ok |-> FALSE, error |-> "Amount is invalid"]

amountToDinero(amount, currencyCode) ==
    LET numericAmount == NumberOf(amount)
        amountInCents == MathRound(fmul(numericAmount, DoubleOfInt(100)))
    IN dinero(amountInCents, "USD")

\* toDecimal(amount) of dinero.js, at the scale 2 of the currency
dineroToDecimal(d) ==
    (IF d.amount < 0 THEN <<"-">> ELSE <<>>)
       \o HundredthsText(BigOfInt(IF d.amount < 0 THEN -d.amount ELSE d.amount))

\* add(dinero1, dinero2) / subtract(dinero1, dinero2) of dinero.js: both
\* objects must have the same currency
dineroSum(d1, d2, sign) ==
    IF d1.currency # d2.currency
    THEN [ok |-> FALSE, error |-> "Objects must have the same currency"]
    ELSE [ok |-> TRUE, amount |-> d1.amount + sign * d2.amount,
          currency |-> d1.currency]

\* dineroToDecimal(result) of a sum, a failure passed on
decimalOf(result) ==
    IF ~result.ok THEN result
    ELSE [ok |-> TRUE, text |-> dineroToDecimal(result)]

\* add / subtract of two dinero objects, a failure to build one passed on
combineDinero(dinero1, dinero2, sign) ==
    IF ~dinero1.ok THEN dinero1
    ELSE IF ~dinero2.ok THEN dinero2
    ELSE decimalOf(dineroSum(dinero1, dinero2, sign))

\* addAmounts (sign 1) and subtractAmounts (sign -1)
combineAmounts(amount1, amount2, sign) ==
    combineDinero(amountToDinero(amount1, "USD"), amountToDinero(amount2, "USD"),
                  sign)

addAmounts(amount1, amount2) == combineAmounts(amount1, amount2, 1)
subtractAmounts(amount1, amount2) == combineAmounts(amount1, amount2, -1)

\* the rates of the table, in hundredths
exchangeRates ==
    [USD |-> 100, EUR |-> 92, GBP |-> 79, CAD |-> 136, AUD |-> 151,
     JPY |-> 15189, CNY |-> 721, INR |-> 8356, BRL |-> 510, CHF |-> 91]

\* exchangeRates[code] as an operand: undefined, hence NaN, for a missing key
rateOf(code) ==
    IF code \in DOMAIN exchangeRates
    THEN DecimalToDouble(FALSE, BigOfInt(exchangeRates[code]), -2)
    ELSE NaN

\* convertCurrency for an amount given as a string
convertCurrency(amount, fromCurrency, toCurrency) ==
    IF fromCurrency = toCurrency THEN [ok |-> TRUE, text |-> amount.text]
    ELSE LET numericAmount == NumberOf(amount)
             amountInUSD == fdiv(numericAmount, rateOf(fromCurrency))
             amountInTargetCurrency == fmul(amountInUSD, rateOf(toCurrency))
         IN [ok |-> TRUE, text |-> toFixed2(amountInTargetCurrency)]

\* ---- the currency utilities as a state machine ----
\* `call` holds one call of a utility: pending with its arguments, then
\* returned with its result. `unit` is the currency each amount argument is an
\* amount of: the utilities have no parameter that receives it.
Called(fn) == call.fn = fn /\ call.state = "called"
Returned(fn) == call.fn = fn /\ call.state = "returned"

Return(result) ==
    /\ call' = [call EXCEPT !.state = "returned", !.result = result]
    /\ UNCHANGED <<store, last, req, reports, clients>>

AmountToDinero ==
    /\ Called("amountToDinero")
    /\ Return(amountToDinero(call.args.amount, call.args.currencyCode))

AddAmounts ==
    /\ Called("addAmounts")
    /\ Return(addAmounts(call.args.amount1, call.args.amount2))

SubtractAmounts ==
    /\ Called("subtractAmounts")
    /\ Return(subtractAmounts(call.args.amount1, call.args.amount2))

ConvertCurrency ==
    /\ Called("convertCurrency")
    /\ Return(convertCurrency(call.args.amount, call.args.fromCurrency,
                              call.args.toCurrency))

MaxText == 3
UtilAlphabet == {"0", "1", "5", ".", "a"}
ShortTexts == UNION {[1..n -> UtilAlphabet] : n \in 0..MaxText}
\* amounts that lie halfway between two cents
HalfwayTexts ==
    {<<u, ".", t, h, "5">> : u \in {"0", "1"}, t \in {"0", "2", "4", "7"},
                             h \in {"0", "1", "4", "5", "8"}}
SampleTexts ==
    {<<"1", "9", ".", "9", "9", "9">>, <<"1", "0", ".", "0", "0", "5">>,
     <<"2", ".", "6", "7", "5">>, <<"1", "2", "a", "b", "c">>,
     <<"a", "b", "c">>, <<"-", "2", ".", "5">>, <<"1", ".", "5", ".", "5">>,
     InfinityText, <<"-">> \o InfinityText}
NumberTexts ==
    {NaNText, InfinityText, <<"1", ".", "5">>, <<"1", ".", "0", "0", "5">>}
Amounts ==
    [type : {"string"}, text : ShortTexts \cup HalfwayTexts \cup SampleTexts]
       \cup [type : {"number"}, text : NumberTexts]
Operands ==
    [type : {"string"},
     text : {<<"1", "0">>, <<"0", ".", "5">>, <<"1", ".", "0", "0", "5">>,
             <<"a", "b", "c">>}]
ConvertAmounts ==
    [type : {"string"},
     text : {<<"5">>, <<"1", "0", "0">>, <<"1", "9", ".", "9", "9", "9">>,
             <<"0", ".", "0", "0", "5">>, <<"a", "b", "c">>}]
\* "XXX" is a code the rate table has no key for
Codes == {"USD", "EUR", "JPY", "XXX"}
NoResult == "none"

Pending(fn, args, unit) ==
    [fn |-> fn, state |-> "called", args |-> args, unit |-> unit,
     result |-> NoResult]

UtilInit ==
    /\ invoices = <<>>
    /\ payments = <<>>
    /\ invoiceSeq = 0
    /\ paymentSeq = 0
    /\ last = [op |-> "none", code |-> 0, caller |-> NoUser, inv |-> 0,
               preStatus |-> "none"]
    /\ req = [r \in Reqs |-> NoReq]
    /\ reports = <<>>
    /\ clients = NoClients
    /\ \/ \E a \in Amounts, c \in Currencies :
             call = Pending("amountToDinero",
                            [amount |-> a, currencyCode |-> c], <<c>>)
       \/ \E fn \in {"addAmounts", "subtractAmounts"}, a1, a2 \in Operands,
             c1, c2 \in Currencies :
             call = Pending(fn, [amount1 |-> a1, amount2 |-> a2], <<c1, c2>>)
       \/ \E a \in ConvertAmounts, from, to \in Codes :
             call = Pending("convertCurrency",
                            [amount |-> a, fromCurrency |-> from,
                             toCurrency |-> to], <<from>>)

UtilNext ==
    \/ AmountToDinero
    \/ AddAmounts
    \/ SubtractAmounts
    \/ ConvertCurrency

UtilSpec == UtilInit /\ [][UtilNext]_vars

\* ---- reports page: calculateReportData (client/src/pages/reports-page.tsx) ----
\* a Date is its local year, month (0 = January) and day of the month
IsLeapYear(y) == (y % 4 = 0 /\ y % 100 # 0) \/ y % 400 = 0

DaysInMonth(y, m) ==
    IF m = 1 THEN (IF IsLeapYear(y) THEN 29 ELSE 28)
    ELSE IF m \in {3, 5, 8, 10} THEN 30
    ELSE 31

\* day d of month m: a day past the end of the month runs into the next month
MakeDate(y, m, d) ==
    IF d <= DaysInMonth(y, m) THEN [year |-> y, month |-> m, day |-> d]
    ELSE IF m = 11 THEN [year |-> y + 1, month |-> 0, day |-> d - DaysInMonth(y, m)]
    ELSE [year |-> y, month |-> m + 1, day |-> d - DaysInMonth(y, m)]

\* date.setMonth(month): month may lie outside 0..11, the day is kept
setMonth(date, month) == MakeDate(date.year + month \div 12, month % 12, date.day)

months ==
    <<"Jan", "Feb", "Mar", "Apr", "May", "Jun", "Jul", "Aug", "Sep", "Oct",
      "Nov", "Dec">>

monthsCount(reportPeriod) ==
    IF reportPeriod = "last_12_months" THEN 12
    ELSE IF reportPeriod = "last_3_months" THEN 3
    ELSE 6

\* the data point of the loop's pass i: the month and year that select its
\* invoices and payments, and the label
dataPoint(startDate, i) ==
    LET monthDate == setMonth(startDate, startDate.month + i)
    IN [name |-> months[monthDate.month + 1], month |-> monthDate.month,
        year |-> monthDate.year]

PreviousDay(date) ==
    IF date.day > 1 THEN [date EXCEPT !.day = @ - 1]
    ELSE IF date.month > 0
    THEN [year |-> date.year, month |-> date.month - 1,
          day |-> DaysInMonth(date.year, date.month - 1)]
    ELSE [year |-> date.year - 1, month |-> 11, day |-> 31]

\* new Date(row.date) read with getMonth() and getFullYear(): the text of a
\* date column ("2023-03-01") is midnight UTC, which a time zone behind UTC
\* (timeZone: its offset from UTC in hours) shows as the evening before
NewDate(date, timeZone) == IF timeZone < 0 THEN PreviousDay(date) ELSE date

inMonth(row, month, year, timeZone) ==
    /\ NewDate(row.date, timeZone).month = month
    /\ NewDate(row.date, timeZone).year = year

RECURSIVE selectFrom(_, _)
\* the rows of a table as a query returns them, here by ascending id
selectFrom(table, ids) ==
    IF ids = {} THEN <<>>
    ELSE LET id == CHOOSE x \in ids : \A y \in ids : x <= y
         IN <<table[id]>> \o selectFrom(table, ids \ {id})

RECURSIVE reduceAmounts(_, _)
\* rows.reduce((sum, row) => sum + Number(row.amount), sum)
reduceAmounts(rows, sum) ==
    IF rows = <<>> THEN sum
    ELSE reduceAmounts(Tail(rows), fadd(sum, Number(rows[1].amount)))

\* a total that counts only the rows equal to the first one
monthTotal_FirstOnly(rows, point, timeZone) ==
    reduceAmounts(SelectSeq(rows, LAMBDA row :
                               /\ row = rows[1]
                               /\ inMonth(row, point.month, point.year, timeZone)),
                  Zero(FALSE))

\* rows.filter(...).reduce(...) of one pass of the loop
monthTotal(rows, point, timeZone) ==
    reduceAmounts(SelectSeq(rows, LAMBDA row :
                                inMonth(row, point.month, point.year, timeZone)),
                  Zero(FALSE))

\* the literals 0.6 and 0.2
BaseFactor == DecimalToDouble(FALSE, BigOfInt(6), -1)
FactorSpread == DecimalToDouble(FALSE, BigOfInt(2), -1)

\* 0.6 + Math.random() * 0.2
randomFactor(random) == fadd(BaseFactor, fmul(random, FactorSpread))

pushed(point, monthRevenue, monthPaymentTotal, random) ==
    [name |-> point.name, month |-> point.month, year |-> point.year,
     revenue |-> toFixed2(monthRevenue),
     expenses |-> toFixed2(fmul(monthRevenue, randomFactor(random))),
     payments |-> toFixed2(monthPaymentTotal)]

\* one pass of the loop: the data point pushed
monthData(point, invs, pays, timeZone, random) ==
    pushed(point, monthTotal(invs, point, timeZone),
           monthTotal(pays, point, timeZone), random)

\* invs and pays: the rows of the queries /api/invoices and /api/payments;
\* random[j]: the value Math.random() returns in pass j
calculateReportData(reportPeriod, currentDate, invs, pays, timeZone, random) ==
    LET startDate ==
            setMonth(currentDate, currentDate.month - (monthsCount(reportPeriod) - 1))
    IN [j \in 1..monthsCount(reportPeriod) |->
           monthData(dataPoint(startDate, j - 1), invs, pays, timeZone, random[j])]

\* values of Math.random(), which lie in [0, 1)
RandomValues == {Zero(FALSE), DecimalToDouble(FALSE, BigOfInt(5), -1)}
RandomStreams == {[j \in 1..12 |-> r] : r \in RandomValues}

reportData(random) ==
    calculateReportData(call.args.reportPeriod, call.args.currentDate,
                        selectFrom(invoices, DOMAIN invoices),
                        selectFrom(payments, DOMAIN payments),
                        call.args.timeZone, random)

CalculateReportData ==
    /\ Called("calculateReportData")
    /\ \E random \in RandomStreams : Return(reportData(random))

\* the page renders again: const reportData = calculateReportData()
Render ==
    /\ Returned("calculateReportData")
    /\ \E random \in RandomStreams :
          call' = [fn |-> call.fn, state |-> "rendered", args |-> call.args,
                   unit |-> call.unit, result |-> reportData(random),
                   previous |-> call.result]
    /\ UNCHANGED <<store, last, req, reports, clients>>

ReportYears == {2023, 2024}
ReportPeriods == {"last_3_months", "last_6_months", "last_12_months"}
Dates ==
    {d \in [year : ReportYears, month : 0..11, day : 1..31] :
        d.day <= DaysInMonth(d.year, d.month)}
TimeZones == {-5, 0}

ReportInit ==
    /\ invoices = <<>>
    /\ payments = <<>>
    /\ invoiceSeq = 0
    /\ paymentSeq = 0
    /\ last = [op |-> "none", code |-> 0, caller |-> NoUser, inv |-> 0,
               preStatus |-> "none"]
    /\ req = [r \in Reqs |-> NoReq]
    /\ reports = <<>>
    /\ clients = NoClients
    /\ \E p \in ReportPeriods, d \in Dates :
          call = Pending("calculateReportData",
                         [reportPeriod |-> p, currentDate |-> d, timeZone |-> 0],
                         <<>>)

ReportNext == CalculateReportData

ReportSpec == ReportInit /\ [][ReportNext]_vars

\* ---- the reports page over stored invoices and payments (BucketSpec) ----
MaxRows == 2
Day(y, m, d) == [year |-> y, month |-> m, day |-> d]
InvoiceRow(amount, date) ==
    [amount |-> amount, date |-> date, status |-> "pending", userId |-> 2]
\* three invoices dated in March 2023
ScenarioE ==
    <<InvoiceRow(<<"1", "0", "0", ".", "0", "0">>, Day(2023, 2, 15)),
      InvoiceRow(<<"2", "5", "0", ".", "5", "0">>, Day(2023, 2, 15)),
      InvoiceRow(<<"4", "9", ".", "5", "0">>, Day(2023, 2, 1))>>
InvoiceRows ==
    {ScenarioE[i] : i \in 1..3}
       \cup {InvoiceRow(<<"0", ".", "1", "0">>, Day(2023, 2, 15))}
PaymentRows ==
    {[invoiceId |-> 1, amount |-> r[1], date |-> r[2], receiptGenerated |-> FALSE,
      userId |-> 2] :
        r \in {<<<<"2", "5", "0", ".", "5", "0">>, Day(2023, 2, 1)>>}}
Today == Day(2023, 2, 15)

BucketInit ==
    /\ invoices \in UNION {[1..n -> InvoiceRows] : n \in 0..MaxRows} \cup {ScenarioE}
    /\ payments \in {<<>>} \cup
                    {<<p>> : p \in IF invoices = <<>> THEN {} ELSE PaymentRows}
    /\ invoiceSeq = Len(invoices)
    /\ paymentSeq = Len(payments)
    /\ last = [op |-> "none", code |-> 0, caller |-> NoUser, inv |-> 0,
               preStatus |-> "none"]
    /\ req = [r \in Reqs |-> NoReq]
    /\ reports = <<>>
    /\ clients = NoClients
    /\ \E p \in ReportPeriods, z \in TimeZones :
          call = Pending("calculateReportData",
                         [reportPeriod |-> p, currentDate |-> Today,
                          timeZone |-> z], <<>>)

BucketNext == CalculateReportData

BucketSpec == BucketInit /\ [][BucketNext]_vars

\* ---- GET /api/dashboard ----
\* storage.getInvoices(userId) and storage.getPayments(userId): every row when
\* userId is undefined, the rows of the user otherwise
AllUsers == 0
idsOf(table, userId) ==
    {id \in DOMAIN table : userId = AllUsers \/ table[id].userId = userId}
getRows(table, userId) == selectFrom(table, idsOf(table, userId))

dashboardStats(totalRevenue, pendingInvoices, totalPayments) ==
    [totalRevenue |-> totalRevenue, pendingInvoices |-> pendingInvoices,
     totalPayments |-> totalPayments,
     outstandingBalance |-> fsub(totalRevenue, totalPayments)]

\* the statistics the route computes from the rows it read
computeStats(invs, pays) ==
    dashboardStats(reduceAmounts(invs, Zero(FALSE)),
                   Len(SelectSeq(invs, LAMBDA inv : inv.status = "pending")),
                   reduceAmounts(pays, Zero(FALSE)))

dashboardResponse(caller, userId) ==
    [op |-> "dashboard", code |-> 200, caller |-> caller, inv |-> 0,
     preStatus |-> "none",
     stats |-> computeStats(getRows(invoices, userId), getRows(payments, userId))]

\* a route that flags the invoices it read
Dashboard_MarksOverdue(caller) ==
    /\ caller # NoUser
    /\ last' = dashboardResponse(caller, AllUsers)
    /\ invoices' = [id \in DOMAIN invoices |->
                       IF invoices[id].status = "pending"
                       THEN [invoices[id] EXCEPT !.status = "overdue"]
                       ELSE invoices[id]]
    /\ UNCHANGED <<payments, invoiceSeq, paymentSeq, req, call, reports, clients>>

\* the response carries the statistics; recentInvoices, a sorted copy of the
\* rows read, is left out
Dashboard(caller) ==
    /\ UNCHANGED <<store, req, call, reports, clients>>
    /\ IF caller = NoUser
       THEN Respond("dashboard", 401, caller, 0, "none")
       ELSE last' = dashboardResponse(caller, IF Role(caller) = "admin"
                                              THEN AllUsers ELSE caller)

\* ---- the read paths over an unchanged store (ReadSpec) ----
StoredInvoices ==
    {[amount |-> r[1], date |-> Day(2023, 2, 1), status |-> r[2], userId |-> r[3]] :
        r \in {<<<<"0", ".", "1", "0">>, "pending", 2>>,
               <<<<"0", ".", "2", "0">>, "pending", 2>>,
               <<<<"0", ".", "2", "0">>, "paid", 2>>,
               <<<<"0", ".", "1", "0">>, "pending", 1>>}}
StoredPayments ==
    [invoiceId : {1}, amount : {<<"0", ".", "3", "0">>}, date : {Day(2023, 2, 1)},
     receiptGenerated : {FALSE}, userId : {2}]

ReadInit ==
    /\ invoices \in UNION {[1..n -> StoredInvoices] : n \in 0..MaxRows}
    /\ payments \in {<<>>} \cup
                    {<<p>> : p \in IF invoices = <<>> THEN {} ELSE StoredPayments}
    /\ invoiceSeq = Len(invoices)
    /\ paymentSeq = Len(payments)
    /\ last = [op |-> "none", code |-> 0, caller |-> NoUser, inv |-> 0,
               preStatus |-> "none"]
    /\ req = [r \in Reqs |-> NoReq]
    /\ reports = <<>>
    /\ clients = NoClients
    /\ \E z \in TimeZones :
          call = Pending("calculateReportData",
                         [reportPeriod |-> "last_3_months", currentDate |-> Today,
                          timeZone |-> z], <<>>)

ReadNext ==
    \/ CalculateReportData
    \/ Render
    \/ \E c \in Callers : Dashboard(c)

ReadSpec == ReadInit /\ [][ReadNext]_vars

\* ---- reports: POST /api/reports, GET /api/reports/:id ----
MaxReports == 1           \* rows the serial reports.id hands out
ReportTypes == {"monthly", "yearly"}

\* handleGenerateReport(type): the body of the POST request
reportBody(type) == [title |-> <<type, "Report">>, type |-> type]

\* insertReportSchema.safeParse({...req.body, userId, generatedAt}).data: the
\* columns of the reports table
reportRow(body, userId, generatedAt) ==
    [title |-> body.title, type |-> body.type, generatedAt |-> generatedAt,
     userId |-> userId]

\* the page shows its buckets and the user asks for a report of a type
CreateReport(caller, type) ==
    /\ call.state = "returned"
    /\ UNCHANGED <<store, req, call, clients>>
    /\ IF caller = NoUser
       THEN Respond("createReport", 401, caller, 0, "none") /\ UNCHANGED reports
       ELSE IF type \notin ReportTypes
       THEN Respond("createReport", 400, caller, 0, "none") /\ UNCHANGED reports
       ELSE /\ Len(reports) < MaxReports
            /\ reports' = Append(reports, reportRow(reportBody(type), caller, Today))
            /\ Respond("createReport", 201, caller, 0, "none")

\* ReportCard.handleDownload: GET /api/reports/:id; the response is the row,
\* whose field data goes to the export
GetReport(caller, id) ==
    /\ UNCHANGED <<store, req, call, reports, clients>>
    /\ IF caller = NoUser
       THEN Respond("getReport", 401, caller, 0, "none")
       ELSE IF id \notin DOMAIN reports
       THEN Respond("getReport", 404, caller, 0, "none")
       ELSE IF AccessDenied(caller, reports[id])
       THEN Respond("getReport", 403, caller, 0, "none")
       ELSE last' = [op |-> "getReport", code |-> 200, caller |-> caller,
                     inv |-> 0, preStatus |-> "none", reportData |-> reports[id]]

\* ---- a report generated and downloaded, an invoice deleted in between
\* (ArchiveSpec) ----
ArchiveInit ==
    /\ invoices \in {<<r>> : r \in InvoiceRows}
    /\ payments = <<>>
    /\ invoiceSeq = 1
    /\ paymentSeq = 0
    /\ last = [op |-> "none", code |-> 0, caller |-> NoUser, inv |-> 0,
               preStatus |-> "none"]
    /\ req = [r \in Reqs |-> NoReq]
    /\ reports = <<>>
    /\ clients = NoClients
    /\ \E p \in ReportPeriods :
          call = Pending("calculateReportData",
                         [reportPeriod |-> p, currentDate |-> Today,
                          timeZone |-> 0], <<>>)

ArchiveNext ==
    \/ CalculateReportData
    \/ \E c \in Callers, t \in ReportTypes \cup {"weekly"} : CreateReport(c, t)
    \/ \E c \in Callers, id \in 1..(MaxReports + 1) : GetReport(c, id)
    \/ \E c \in Users, i \in InvoiceIds : DeleteInvoice(c, i)

ArchiveSpec == ArchiveInit /\ [][ArchiveNext]_vars

\* ---- the read routes of invoices and payments ----
\* a response that carries rows, given by their ids
Rows(op, caller, ids) ==
    last' = [op |-> op, code |-> 200, caller |-> caller, inv |-> 0,
             preStatus |-> "none", ids |-> ids]

\* req.user.role === "admin" ? undefined : req.user.id
listFilter(caller) == IF Role(caller) = "admin" THEN AllUsers ELSE caller

\* GET /api/invoices ("listInvoices") and GET /api/payments ("listPayments")
List(caller, op, table) ==
    /\ UNCHANGED <<store, req, call, reports, clients>>
    /\ IF caller = NoUser
       THEN Respond(op, 401, caller, 0, "none")
       ELSE Rows(op, caller, idsOf(table, listFilter(caller)))

\* GET /api/invoices/:id ("getInvoice") and GET /api/payments/:id ("getPayment")
Get(caller, op, table, id) ==
    /\ UNCHANGED <<store, req, call, reports, clients>>
    /\ IF caller = NoUser
       THEN Respond(op, 401, caller, 0, "none")
       ELSE IF id \notin DOMAIN table
       THEN Respond(op, 404, caller, 0, "none")
       ELSE IF AccessDenied(caller, table[id])
       THEN Respond(op, 403, caller, 0, "none")
       ELSE Rows(op, caller, {id})

\* GET /api/payments/invoice/:invoiceId
GetPaymentsByInvoice(caller, invoiceId) ==
    /\ UNCHANGED <<store, req, call, reports, clients>>
    /\ IF caller = NoUser
       THEN Respond("getPaymentsByInvoice", 401, caller, 0, "none")
       ELSE IF invoiceId \notin DOMAIN invoices
       THEN Respond("getPaymentsByInvoice", 404, caller, 0, "none")
       ELSE IF AccessDenied(caller, invoices[invoiceId])
       THEN Respond("getPaymentsByInvoice", 403, caller, 0, "none")
       ELSE Rows("getPaymentsByInvoice", caller,
                 getPaymentsByInvoice(payments, invoiceId))

\* ---- two users, each with an invoice (AccessSpec) ----
\* the store after the administrator has created invoice 1 and the accountant
\* invoice 2
AccessInit ==
    /\ invoices \in {f \in [FrameIds -> [amount : FrameAmounts,
                                         status : {"pending", "paid"},
                                         userId : Users]] :
                        \A id \in FrameIds : f[id].userId = id}
    /\ payments = <<>>
    /\ invoiceSeq = 2
    /\ paymentSeq = 0
    /\ last = [op |-> "createInvoice", code |-> 201, caller |-> 2, inv |-> 2,
               preStatus |-> "none"]
    /\ req = [r \in Reqs |-> NoReq]
    /\ reports = <<>>
    /\ clients = NoClients
    /\ call = NoCall

AccessNext ==
    \/ \E c \in Callers : List(c, "listInvoices", invoices)
    \/ \E c \in Callers : List(c, "listPayments", payments)
    \/ \E c \in Callers, i \in FrameIds \cup {3} : Get(c, "getInvoice", invoices, i)
    \/ \E c \in Callers, p \in PaymentIds : Get(c, "getPayment", payments, p)
    \/ \E c \in Callers, i \in FrameIds \cup {3} : GetPaymentsByInvoice(c, i)
    \/ \E c \in Users, i \in FrameIds, p \in InvoicePatches : UpdateInvoice(c, i, p)
    \/ \E c \in Users, i \in FrameIds : DeleteInvoice(c, i)
    \/ \E c \in Users, b \in FrameBodies : CreatePayment(c, b, "none")
    \/ \E c \in Users, p \in PaymentIds, b \in FramePatches : UpdatePayment(c, p, b)
    \/ \E c \in Users, p \in PaymentIds : DeletePayment(c, p, "none")

AccessSpec == AccessInit /\ [][AccessNext]_vars

\* ---- the client routes ----
MaxClients == 2           \* rows the serial clients.id hands out
ClientNames == {"Acme", "Bolt"}
ClientIds == 1..MaxClients

\* a value of a JSON body
JsonString(text) == [type |-> "string", text |-> text]
JsonNumber(text) == [type |-> "number", text |-> text]
NameValues == {JsonString(n) : n \in ClientNames} \cup {JsonNumber("5")}
Email == JsonString("office@example.com")
\* the bodies of POST and PUT /api/clients: with both required fields, without
\* email, without name
ClientBodies ==
    {[name |-> v, email |-> Email] : v \in NameValues}
        \cup {[name |-> v] : v \in NameValues} \cup {[email |-> Email]}

\* insertClientSchema.safeParse, insertClientSchema.partial().safeParse
clientParses(body, partial) ==
    /\ \A k \in DOMAIN body : body[k].type = "string"
    /\ partial \/ {"name", "email"} \subseteq DOMAIN body
\* parsedData.data
clientData(body) == [k \in DOMAIN body |-> body[k].text]

Answer(op, code, caller, client) ==
    last' = [op |-> op, code |-> code, caller |-> caller, client |-> client]

getClientByName(table, name) ==
    {id \in DOMAIN table.rows : table.rows[id].name = name}
createClient(table, data) ==
    [seq |-> table.seq + 1, rows |-> table.rows @@ (table.seq + 1 :> data)]
updateClient(table, id, data) ==
    [table EXCEPT !.rows[id] = [k \in DOMAIN @ |->
                                   IF k \in DOMAIN data THEN data[k] ELSE @[k]]]
deleteClient(table, id) ==
    [table EXCEPT !.rows = [i \in DOMAIN @ \ {id} |-> @[i]]]
getInvoicesByClient(invs, clientId) ==
    {id \in DOMAIN invs : invs[id].clientId = clientId}

\* POST /api/clients
CreateClient(caller, body) ==
    /\ UNCHANGED <<store, req, call, reports>>
    /\ IF caller = NoUser
       THEN Answer("createClient", 401, caller, 0) /\ UNCHANGED clients
       ELSE IF ~clientParses(body, FALSE)
       THEN Answer("createClient", 400, caller, 0) /\ UNCHANGED clients
       ELSE IF getClientByName(clients, clientData(body).name) # {}
       THEN Answer("createClient", 409, caller, 0) /\ UNCHANGED clients
       ELSE /\ clients.seq < MaxClients
            /\ clients' = createClient(clients,
                              clientData(body) @@ [userId |-> caller])
            /\ Answer("createClient", 201, caller, clients.seq + 1)

\* PUT /api/clients/:id
UpdateClient(caller, id, body) ==
    /\ UNCHANGED <<store, req, call, reports>>
    /\ IF caller = NoUser
       THEN Answer("updateClient", 401, caller, id) /\ UNCHANGED clients
       ELSE IF id \notin DOMAIN clients.rows
       THEN Answer("updateClient", 404, caller, id) /\ UNCHANGED clients
       ELSE IF AccessDenied(caller, clients.rows[id])
       THEN Answer("updateClient", 403, caller, id) /\ UNCHANGED clients
       ELSE IF ~clientParses(body, TRUE)
       THEN Answer("updateClient", 400, caller, id) /\ UNCHANGED clients
       ELSE /\ clients' = updateClient(clients, id, clientData(body))
            /\ Answer("updateClient", 200, caller, id)

\* DELETE /api/clients/:id without the test for invoices of the client
DeleteClient_Unchecked(caller, id) ==
    /\ UNCHANGED <<store, req, call, reports>>
    /\ IF caller = NoUser
       THEN Answer("deleteClient", 401, caller, id) /\ UNCHANGED clients
       ELSE IF id \notin DOMAIN clients.rows
       THEN Answer("deleteClient", 404, caller, id) /\ UNCHANGED clients
       ELSE IF AccessDenied(caller, clients.rows[id])
       THEN Answer("deleteClient", 403, caller, id) /\ UNCHANGED clients
       ELSE /\ clients' = deleteClient(clients, id)
            /\ Answer("deleteClient", 204, caller, id)

\* DELETE /api/clients/:id
DeleteClient(caller, id) ==
    /\ UNCHANGED <<store, req, call, reports>>
    /\ IF caller = NoUser
       THEN Answer("deleteClient", 401, caller, id) /\ UNCHANGED clients
       ELSE IF id \notin DOMAIN clients.rows
       THEN Answer("deleteClient", 404, caller, id) /\ UNCHANGED clients
       ELSE IF AccessDenied(caller, clients.rows[id])
       THEN Answer("deleteClient", 403, caller, id) /\ UNCHANGED clients
       ELSE IF getInvoicesByClient(invoices, id) # {}
       THEN Answer("deleteClient", 400, caller, id) /\ UNCHANGED clients
       ELSE /\ clients' = deleteClient(clients, id)
            /\ Answer("deleteClient", 204, caller, id)

\* ---- clients and their invoices (ClientSpec) ----
NoClient == 0             \* invoices.client_id is null
\* the store after the accountant has created the client Acme and up to
\* MaxRows invoices, each for that client or for none
ClientInit ==
    /\ clients = [seq |-> 1,
                  rows |-> <<[name |-> "Acme", email |-> Email.text, userId |-> 2]>>]
    /\ invoices \in UNION {[1..n -> [amount : FrameAmounts, status : {"pending"},
                                     userId : {2},
                                     clientId : {NoClient, 1}]] :
                              n \in 0..MaxRows}
    /\ payments = <<>>
    /\ invoiceSeq = Len(invoices)
    /\ paymentSeq = 0
    /\ last = [op |-> "createClient", code |-> 201, caller |-> 2, client |-> 1]
    /\ req = [r \in Reqs |-> NoReq]
    /\ reports = <<>>
    /\ call = NoCall

ClientNext ==
    \/ \E c \in Callers, b \in ClientBodies : CreateClient(c, b)
    \/ \E c \in Callers, i \in ClientIds, b \in ClientBodies : UpdateClient(c, i, b)
    \/ \E c \in Callers, i \in ClientIds : DeleteClient(c, i)
    \/ \E c \in Users, i \in 1..MaxRows : DeleteInvoice(c, i)

ClientSpec == ClientInit /\ [][ClientNext]_vars

PaymentOps == {"createPayment", "updatePayment", "deletePayment"}

\* ---- properties of the payment routes (Spec) ----

\* C1 (PaySpec): after any sequence of payment requests an invoice that is not
\* "overdue" is "paid" exactly when its stored payments sum to at least its
\* amount.
C1_PaidIffCovered ==
    \A i \in DOMAIN invoices :
        invoices[i].status # "overdue" =>
            (invoices[i].status = "paid"
                <=> TotalPaid(payments, i) >= invoices[i].amount)

\* C2: on payment create the new payment is counted once: a create that leaves
\* the stored total below the invoice amount keeps a "pending" invoice
\* "pending", and the create that turns the invoice "paid" has brought the
\* stored total to at least the invoice amount.
C2_CreateCountsOnce ==
    (last.op = "createPayment" /\ last.code = 201) =>
        LET total == TotalPaid(payments, last.inv)
            invoice == invoices[last.inv]
        IN /\ (last.preStatus = "pending" /\ total < invoice.amount)
                  => invoice.status = "pending"
           /\ (last.preStatus # "paid" /\ invoice.status = "paid")
                  => total >= invoice.amount

\* C3: a payment update that changes the amount or the invoice reference
\* reconciles every invoice it affects: "paid" becomes "pending" when the total
\* is now below the amount, a non-paid invoice becomes "paid" when it is not.
C3_UpdateReconciles ==
    [][(last'.op = "updatePayment" /\ last'.code = 200) =>
          \A i \in DOMAIN invoices :
             (\E p \in DOMAIN payments :
                 /\ payments'[p] # payments[p]
                 /\ i \in {payments[p].invoiceId, payments'[p].invoiceId})
             => /\ (invoices[i].status = "paid"
                       /\ TotalPaid(payments', i) < invoices[i].amount)
                    => invoices'[i].status = "pending"
                /\ (invoices[i].status # "paid"
                       /\ TotalPaid(payments', i) >= invoices[i].amount)
                    => invoices'[i].status = "paid"]_vars

C5_OverdueOnlyToPaid ==
    [][last'.op \in PaymentOps =>
          \A i \in DOMAIN invoices \cap DOMAIN invoices' :
             invoices[i].status = "overdue" =>
                \/ invoices'[i].status = "overdue"
                \/ /\ invoices'[i].status = "paid"
                   /\ TotalPaid(payments', i) >= invoices'[i].amount]_vars

\* C6 (ConcSpec): the storage calls of one payment request on an invoice never
\* interleave with the insert or delete of another request on that invoice:
\* whenever a handler inserts or deletes a payment, no other handler working
\* on the same invoice is between its first read and its response.
C6_Serialized ==
    [][\A r \in Reqs :
          (\/ (req[r].pc = "c_insert" /\ req'[r].pc = "c_read")
           \/ (req[r].pc = "d_delete" /\ req'[r].pc = "d_invoice"))
          => \A o \in Reqs \ {r} : ~Idle(o) => req[o].inv # req[r].inv]_vars

\* C7 (FaultSpec): a payment create or delete that is answered with an error
\* because a storage call of the reconciliation failed leaves the payments and
\* the invoices as they were before the request.
C7_FailureRollsBack ==
    [][(last'.op \in {"createPayment", "deletePayment"} /\ last'.code = 500)
          => (payments' = payments /\ invoices' = invoices)]_vars

\* C8: a payment create that names no stored invoice writes nothing, and is
\* answered 404 (401 when nobody is logged in, the check before the lookup).
C8_CreateNeedsInvoice ==
    [][(last'.op = "createPayment" /\ last'.inv \notin DOMAIN invoices)
          => /\ UNCHANGED store
             /\ last'.code = IF last'.caller = NoUser THEN 401 ELSE 404]_vars

\* a create naming a deleted invoice was rejected while a payment of that
\* invoice is still stored
C8_Witness ==
    /\ last.op = "createPayment" /\ last.code = 404
    /\ last.inv \notin DOMAIN invoices
    /\ invoiceSeq >= last.inv
    /\ payments # <<>>

\* C9: every stored payment references a stored invoice.
C9_NoOrphanPayment ==
    \A p \in DOMAIN payments : payments[p].invoiceId \in DOMAIN invoices

\* C10: after an invoice create or update the stored status is the one the
\* reconciliation rule derives from the payments of the invoice.
C10_StatusDerived ==
    (last.op \in {"createInvoice", "updateInvoice"} /\ last.code \in {200, 201}) =>
        (invoices[last.inv].status = "paid"
            <=> TotalPaid(payments, last.inv) >= invoices[last.inv].amount)

\* C11: the status-derivation step of payment create, and that of payment
\* delete, is idempotent: the step gives the status the request leaves, and
\* running it once more on the same payments makes no further transition.
C11_ReconcileIdempotent ==
    [][/\ (last'.op = "createPayment" /\ last'.code = 201) =>
             LET id == last'.inv
                 payment == payments'[paymentSeq']
                 once == reconcileCreate(invoices, payments', id, payment)
             IN /\ invoices' = once
                /\ reconcileCreate(once, payments', id, payment) = once
       /\ (last'.op = "deletePayment" /\ last'.code = 204) =>
             LET id == last'.inv
                 once == reconcileDelete(invoices, payments', id)
             IN /\ invoices' = once
                /\ reconcileDelete(once, payments', id) = once]_vars

\* a create has turned an "overdue" invoice "paid" while the stored payments
\* sum to less than the invoice amount
C11_Witness ==
    /\ last.op = "createPayment" /\ last.code = 201
    /\ last.preStatus = "overdue"
    /\ invoices[last.inv].status = "paid"
    /\ TotalPaid(payments, last.inv) < invoices[last.inv].amount

\* C12 (FrameSpec): a step of a payment create, update or delete handler whose
\* payment belongs to invoice A leaves the row and the payment set of every
\* other invoice B as they were, whatever the other handler is doing.
C12_OtherInvoiceUntouched ==
    [][\A r \in Reqs :
          req'[r] # req[r] =>
             LET a == IF Idle(r) THEN req'[r].inv ELSE req[r].inv
             IN \A b \in DOMAIN invoices \ {a} :
                   /\ invoices'[b] = invoices[b]
                   /\ {<<p, payments'[p]>> : p \in getPaymentsByInvoice(payments', b)}
                         = {<<p, payments[p]>> : p \in getPaymentsByInvoice(payments, b)}
      ]_vars

\* C13 (ReceiptSpec): a payment update whose body is { receiptGenerated: true }
\* changes nothing but that flag of that payment: amount, date, invoice
\* reference and owner of every payment stay, and no invoice row is written.
C13_ReceiptOnlyFlag ==
    [][\A c \in Callers, p \in PaymentIds :
          GenerateReceipt(c, p) =>
             /\ invoices' = invoices
             /\ DOMAIN payments' = DOMAIN payments
             /\ \A q \in DOMAIN payments :
                   /\ payments'[q].amount = payments[q].amount
                   /\ payments'[q].date = payments[q].date
                   /\ payments'[q].invoiceId = payments[q].invoiceId
                   /\ payments'[q].userId = payments[q].userId
                   /\ q # p => payments'[q] = payments[q]]_vars

\* a receipt was generated for a payment of an invoice whose stored payments
\* do not cover it
C13_Witness ==
    /\ last.op = "updatePayment" /\ last.code = 200
    /\ \E p \in DOMAIN payments :
          /\ payments[p].receiptGenerated
          /\ payments[p].date = 2
          /\ TotalPaid(payments, payments[p].invoiceId) < invoices[1].amount

C16_ForeignCurrencyRejected ==
    [][\A c \in Callers, b \in PaymentBodies :
          (/\ CreatePayment(c, b, "none")
           /\ InvoiceFound(invoices, b.invoiceId)
           /\ b.currency # InvoiceCurrency)
          => /\ last'.code # 201
             /\ payments' = payments
             /\ invoices' = invoices]_vars

\* ---- properties of the currency utilities (UtilSpec) ----

RECURSIVE TextDigits(_)
\* the integer the digits of a decimal numeral spell, the point left out
TextDigits(s) ==
    IF s = <<>> THEN 0
    ELSE LET front == SubSeq(s, 1, Len(s) - 1)
         IN IF IsDigit(s[Len(s)]) THEN 10 * TextDigits(front) + DigitValue(s[Len(s)])
            ELSE TextDigits(front)

\* the cents nearest to the decimal numeral s, the halfway case going up
HalfUpCents(s) ==
    LET point == {i \in 1..Len(s) : s[i] = "."}
        k == IF point = {} THEN 0 ELSE Len(s) - (CHOOSE i \in point : TRUE)
        N == TextDigits(s)
    IN IF s[1] # "-" THEN (N * 200 + 10 ^ k) \div (2 * 10 ^ k)
       ELSE IF N * 200 <= 10 ^ k THEN 0
       ELSE -((N * 200 + 10 ^ k - 1) \div (2 * 10 ^ k))

\* C15 (UtilSpec): addAmounts and subtractAmounts never return a result for two
\* amounts of different currencies: every such call fails.
C15_MismatchFails ==
    (/\ call.fn \in {"addAmounts", "subtractAmounts"}
     /\ call.state = "returned"
     /\ call.unit[1] # call.unit[2])
       => ~call.result.ok

\* C17 (UtilSpec): amountToDinero maps every decimal string to the nearest
\* whole number of cents, an amount halfway between two cents going up.
C17_RoundHalfUp ==
    (/\ Returned("amountToDinero")
     /\ call.args.amount.type = "string"
     /\ IsDecimalText(call.args.amount.text))
       => /\ call.result.ok
          /\ call.result.amount = HalfUpCents(call.args.amount.text)

\* an amount argument that is a finite number, or a string that is a numeral
Parseable(amount) ==
    IF amount.type = "string" THEN IsDecimalText(amount.text)
    ELSE amount.text \notin {NaNText, InfinityText, <<"-">> \o InfinityText}

\* C18 (UtilSpec): amountToDinero fails for every input that is not a finite,
\* parseable number, and never returns a Money value for it.
C18_InvalidAmountFails ==
    (Returned("amountToDinero") /\ ~Parseable(call.args.amount))
       => ~call.result.ok

\* C19 (UtilSpec): convertCurrency fails whenever the source or the target
\* code is absent from the exchange-rate table, and never returns an amount.
C19_UnsupportedCurrencyFails ==
    (/\ Returned("convertCurrency")
     /\ \/ call.args.fromCurrency \notin DOMAIN exchangeRates
        \/ call.args.toCurrency \notin DOMAIN exchangeRates)
       => ~call.result.ok

\* ---- properties of the reports page (ReportSpec) ----

\* the number of the calendar month of a data point, counted from year 0
MonthNumber(b) == b.year * 12 + b.month

\* C20 (ReportSpec): for every current date and every period, the buckets of
\* calculateReportData are as many as the period has months and cover
\* consecutive calendar months, oldest first, the last being the current month.
C20_ConsecutiveMonths ==
    Returned("calculateReportData") =>
        /\ Len(call.result) = monthsCount(call.args.reportPeriod)
        /\ MonthNumber(call.result[Len(call.result)])
              = MonthNumber(call.args.currentDate)
        /\ \A k \in 1..(Len(call.result) - 1) :
              MonthNumber(call.result[k + 1]) = MonthNumber(call.result[k]) + 1

\* ---- properties of the bucket sums (BucketSpec) ----

\* the rows of a table whose date column lies in a month of a year
DatedIn(table, month, year) ==
    {id \in DOMAIN table :
        table[id].date.month = month /\ table[id].date.year = year}

RECURSIVE CentsOf(_, _)
\* the sum, in cents, of the amounts of the rows S of a table
CentsOf(table, S) ==
    IF S = {} THEN 0
    ELSE LET id == CHOOSE x \in S : TRUE
         IN TextDigits(table[id].amount) + CentsOf(table, S \ {id})

\* cents written with two fraction digits
CentsText(n) == HundredthsText(BigOfInt(n))

\* C21 (BucketSpec): in each bucket, revenue is the sum of the amounts of
\* exactly the invoices dated in the bucket's month and year, and payments the
\* sum of the amounts of exactly the payments dated in that month and year.
C21_BucketSums ==
    Returned("calculateReportData") =>
        \A k \in 1..Len(call.result) :
            LET b == call.result[k] IN
            /\ b.revenue = CentsText(CentsOf(invoices,
                                             DatedIn(invoices, b.month, b.year)))
            /\ b.payments = CentsText(CentsOf(payments,
                                              DatedIn(payments, b.month, b.year)))

\* the revenue, in cents, that a bucket has when the invoices S are all there are
RevenueOf(S, bucket) ==
    TextDigits(toFixed2(monthTotal(selectFrom(invoices, S), bucket,
                                   call.args.timeZone)))

\* C22 (BucketSpec): for every split of the invoices into two disjoint subsets
\* and every period, in each bucket the revenue computed from the first subset
\* plus the revenue computed from the second is the revenue computed from all.
C22_RevenueAdditive ==
    Returned("calculateReportData") =>
        \A k \in 1..Len(call.result) :
            LET revenue == [S \in SUBSET DOMAIN invoices |->
                               RevenueOf(S, call.result[k])]
            IN \A S \in SUBSET DOMAIN invoices :
                  revenue[S] + revenue[DOMAIN invoices \ S]
                     = TextDigits(call.result[k].revenue)

\* invoices of 100.00, 250.50 and 49.50 fall into one bucket, whose revenue
\* is "400.00": 100.00 from the first and 300.00 from the other two
C22_Witness ==
    /\ Returned("calculateReportData")
    /\ invoices = ScenarioE
    /\ \E k \in 1..Len(call.result) :
          /\ call.result[k].revenue = <<"4", "0", "0", ".", "0", "0">>
          /\ RevenueOf({1}, call.result[k]) = 10000
          /\ RevenueOf({2, 3}, call.result[k]) = 30000

\* ---- properties of the read paths (ReadSpec) ----

\* the rows of a table a caller may see
Visible(table, caller) ==
    {id \in DOMAIN table : Role(caller) = "admin" \/ table[id].userId = caller}

\* the Number that stands for an amount of so many cents
NumberOfCents(n) == DecimalToDouble(n < 0, BigOfInt(IF n < 0 THEN -n ELSE n), -2)

\* C23 (ReadSpec): the statistics of a dashboard response are, over the
\* invoices and payments visible to the caller, totalRevenue = the sum of the
\* invoice amounts, totalPayments = the sum of the payment amounts,
\* pendingInvoices = the number of invoices with status "pending", and
\* outstandingBalance = totalRevenue - totalPayments.
C23_DashboardStats ==
    last.op = "dashboard" /\ last.code = 200 =>
        LET revenue == CentsOf(invoices, Visible(invoices, last.caller))
            paid == CentsOf(payments, Visible(payments, last.caller))
        IN /\ last.stats.totalRevenue = NumberOfCents(revenue)
           /\ last.stats.totalPayments = NumberOfCents(paid)
           /\ last.stats.pendingInvoices
                 = Cardinality({id \in Visible(invoices, last.caller) :
                                   invoices[id].status = "pending"})
           /\ last.stats.outstandingBalance = NumberOfCents(revenue - paid)

\* a step of a read path: a dashboard response or a result of calculateReportData
ReadStep ==
    \/ last'.op = "dashboard" /\ last' # last
    \/ call'.fn = "calculateReportData" /\ call' # call

\* C24 (ReadSpec): a dashboard request and a run of calculateReportData leave
\* every invoice, its status included, and every payment as they were.
C24_ReadsMutateNothing ==
    [][ReadStep => invoices' = invoices /\ payments' = payments]_vars

\* the dashboard has answered and the report was computed over a store that
\* holds a pending invoice and a payment
C24_Witness ==
    /\ last.op = "dashboard" /\ last.code = 200
    /\ last.stats.pendingInvoices > 0
    /\ call.state = "rendered"
    /\ payments # <<>>
    /\ \E id \in DOMAIN invoices : invoices[id].status = "pending"

\* C25 (ReadSpec): two runs of calculateReportData over the same invoices,
\* payments, period and current date return the same buckets in every field,
\* expenses included.
C25_SameInputsSameBuckets ==
    call.state = "rendered" => call.result = call.previous

\* ---- status writes of the payment routes (Spec) ----

\* C28: a payment request leaves the set of invoices as it is; a payment
\* create changes a status only from a status other than "paid" to "paid", a
\* payment delete only from "paid" to "pending", and a payment update changes
\* no status.
C28_OnlyStatusWrites ==
    [][last'.op \in PaymentOps =>
          /\ DOMAIN invoices' = DOMAIN invoices
          /\ \A id \in DOMAIN invoices :
                invoices'[id].status # invoices[id].status =>
                   \/ /\ last'.op = "createPayment"
                      /\ invoices[id].status # "paid"
                      /\ invoices'[id].status = "paid"
                   \/ /\ last'.op = "deletePayment"
                      /\ invoices[id].status = "paid"
                      /\ invoices'[id].status = "pending"]_vars

\* the delete of the only payment of a "paid" invoice reopened it
C28_Witness ==
    /\ last.op = "deletePayment" /\ last.code = 204 /\ last.preStatus = "paid"
    /\ getPaymentsByInvoice(payments, last.inv) = {}
    /\ last.inv \in DOMAIN invoices
    /\ invoices[last.inv].status = "pending"

\* ---- properties of the stored reports (ArchiveSpec) ----

\* C26 (ArchiveSpec): a stored report carries the buckets computed when it was
\* generated, and a read of the report returns those buckets, whatever was
\* done to the invoices and payments since.
C26_ReportKeepsPayload ==
    /\ \A id \in DOMAIN reports :
          "data" \in DOMAIN reports[id] /\ reports[id].data = call.result
    /\ last.op = "getReport" /\ last.code = 200 =>
          /\ "data" \in DOMAIN last.reportData
          /\ last.reportData.data = call.result

\* ---- properties of the access rule (AccessSpec) ----

\* the rows of a table that belong to another user than u
Foreign(table, u) == {id \in DOMAIN table : table[id].userId # u}

\* a request of an accountant leaves the rows of other users as they are
ForeignRowsKept(table, after, u) ==
    \A id \in Foreign(table, u) : id \in DOMAIN after /\ after[id] = table[id]

InvoiceReads == {"listInvoices", "getInvoice"}
PaymentReads == {"listPayments", "getPayment", "getPaymentsByInvoice"}

\* C27 (AccessSpec): a request of a user who is no administrator changes no
\* invoice and no payment of another user and returns none; the administrator
\* is never denied, and the lists return all rows to the administrator.
C27_OwnRecordsOnly ==
    [][/\ last'.caller \in Users /\ Role(last'.caller) # "admin" =>
             /\ ForeignRowsKept(invoices, invoices', last'.caller)
             /\ ForeignRowsKept(payments, payments', last'.caller)
             /\ "ids" \in DOMAIN last' /\ last'.op \in InvoiceReads =>
                   last'.ids \cap Foreign(invoices, last'.caller) = {}
             /\ "ids" \in DOMAIN last' /\ last'.op \in PaymentReads =>
                   last'.ids \cap Foreign(payments, last'.caller) = {}
       /\ last'.caller \in Users /\ Role(last'.caller) = "admin" =>
             /\ last'.code # 403
             /\ last'.op = "listInvoices" /\ last'.code = 200 =>
                   last'.ids = DOMAIN invoices
             /\ last'.op = "listPayments" /\ last'.code = 200 =>
                   last'.ids = DOMAIN payments
      ]_vars

\* ---- properties of the client routes (ClientSpec) ----

\* C29 (ClientSpec): a delete request for a client that an invoice refers to is
\* answered 400 and the client stays stored; a delete request removes a client
\* only when no invoice refers to it, so no invoice refers to a client that a
\* delete request has removed.
C29_ReferencedClientStays ==
    [][last'.op = "deleteClient" =>
          /\ LET id == last'.client IN
             /\ /\ last'.caller \in Users
                /\ id \in DOMAIN clients.rows
                /\ ~AccessDenied(last'.caller, clients.rows[id])
                /\ getInvoicesByClient(invoices, id) # {}
                => last'.code = 400 /\ clients' = clients
             /\ id \in DOMAIN clients.rows /\ id \notin DOMAIN clients'.rows =>
                   getInvoicesByClient(invoices, id) = {}
          /\ \A c \in 1..clients'.seq \ DOMAIN clients'.rows :
                getInvoicesByClient(invoices', c) = {}]_vars

\* a delete request was refused for a client with an invoice, after another
\* client was removed
C29_Witness ==
    /\ last.op = "deleteClient"
    /\ last.code = 400
    /\ last.client \in DOMAIN clients.rows
    /\ getInvoicesByClient(invoices, last.client) # {}
    /\ 1..clients.seq \ DOMAIN clients.rows # {}

\* no two stored clients have the same name
NamesUnique(table) ==
    \A a, b \in DOMAIN table.rows :
        table.rows[a].name = table.rows[b].name => a = b

\* C30 (ClientSpec): after every create and update request no two stored
\* clients have the same name, and a create request with the name of a stored
\* client is answered 409 and stores nothing.
C30_ClientNamesUnique ==
    [][/\ NamesUnique(clients')
       /\ last'.op = "createClient" /\ last'.caller \in Users =>
             \A b \in ClientBodies :
                 (/\ clientParses(b, FALSE)
                  /\ getClientByName(clients, clientData(b).name) # {}
                  /\ CreateClient(last'.caller, b))
                 => last'.code = 409 /\ clients' = clients]_vars

====
